---------------------------- MODULE Spec2Model ----------------------------
(***************************************************************************)
(* A model of the date labels of src/datelabel.py (Python 2): Date, a      *)
(* datetime.datetime tagged with a precision, and DateRange, a closed      *)
(* interval of two Dates.                                                  *)
(*                                                                         *)
(* Python values are modelled as follows.                                  *)
(*   str            a sequence of one-character strings                    *)
(*   tuple of ints  a sequence of integers                                 *)
(*   Date           a record  kind = "Date"  with the datetime fields and  *)
(*                  the precision attribute                                *)
(*   datetime, date records  kind = "datetime" / "date"  (no precision)    *)
(*   DateRange      a record  kind = "DateRange"  with start and end       *)
(*   a call         a record [exc, val]: exc = "none" and the value        *)
(*                  returned, or the name of the exception raised          *)
(***************************************************************************)
EXTENDS Integers, Sequences, FiniteSets, TLC

VARIABLES
    input,   \* the arguments of the scenario, drawn in Init
    obj,     \* the outcome of the constructor call on input
    ret,     \* the outcome of the latest method call
    calls    \* the calls made so far, in order (of an object that is
             \* called again and again: its constructor and the latest call)

vars == <<input, obj, ret, calls>>

(***************************************************************************)
(* Outcomes of calls.                                                      *)
(***************************************************************************)
None == [kind |-> "None"]

Ok(v) == [exc |-> "none", val |-> v]

Raise(e) == [exc |-> e, val |-> None]

IsOk(r) == r.exc = "none"

NoCall == Raise("not called")

\* statement a, then b: b is not reached when a raises
Then(a, b) == IF IsOk(a) THEN b ELSE a

\* the head and the tail of a list comprehension whose items are outcomes:
\* the first item that raises ends it
Cons(h, t) ==
    IF ~IsOk(h) THEN h
    ELSE IF ~IsOk(t) THEN t
    ELSE Ok(<<h.val>> \o t.val)

Last(q) == q[Len(q)]

(***************************************************************************)
(* Bounds of the model.                                                    *)
(***************************************************************************)
\* the recent years of the dates are 2000 .. 2000 + NumRecentYears - 1
NumRecentYears == 2

\* the years of the range endpoints are 2000 .. 2000 + NumRangeYears - 1
NumRangeYears == 6

\* the largest number of items in a collection handed to DateRange
MaxColl == 3

\* the quantities of the frequencies are -1 .. MaxQuantity, and 24
MaxQuantity == 3

(***************************************************************************)
(* Constants of the Python 2 runtime the code runs on.                     *)
(***************************************************************************)
\* datetime.MINYEAR and datetime.MAXYEAR: datetime.__new__ rejects others
MINYEAR == 1

MAXYEAR == 9999

\* Python 2: "the datetime strftime() methods require year >= 1900"
StrftimeMinYear == 1900

(***************************************************************************)
(* str: int(), split('-'), zero-padded rendering.                          *)
(***************************************************************************)
Digits == <<"0", "1", "2", "3", "4", "5", "6", "7", "8", "9">>

IsDigit(c) == \E i \in 1..10 : Digits[i] = c

DigitVal(c) == (CHOOSE i \in 1..10 : Digits[i] = c) - 1

Slice(s, lo, hi) == [i \in 1..(hi - lo) |-> s[lo + i]]   \* s[lo:hi], 0-based

RECURSIVE Strip(_)
Strip(s) ==
    IF s = <<>> THEN s
    ELSE IF Head(s) = " " THEN Strip(Tail(s))
    ELSE IF Last(s) = " " THEN Strip(SubSeq(s, 1, Len(s) - 1))
    ELSE s

RECURSIVE DigitsValue(_)
DigitsValue(s) ==
    IF s = <<>> THEN 0
    ELSE 10 * DigitsValue(SubSeq(s, 1, Len(s) - 1)) + DigitVal(Last(s))

\* int(s): surrounding blanks and one sign are accepted, then digits only
IntOfStripped(t) ==
    LET signed == t # <<>> /\ Head(t) \in {"+", "-"}
        body == IF signed THEN Tail(t) ELSE t
    IN  IF body = <<>> \/ \E i \in 1..Len(body) : ~IsDigit(body[i])
        THEN Raise("ValueError")
        ELSE Ok(IF signed /\ Head(t) = "-" THEN 0 - DigitsValue(body)
                ELSE DigitsValue(body))

int(s) == IntOfStripped(Strip(s))

\* s.split('-')
RECURSIVE split(_)
split(s) ==
    IF \A i \in 1..Len(s) : s[i] # "-" THEN <<s>>
    ELSE LET k == CHOOSE i \in 1..Len(s) :
                      s[i] = "-" /\ \A j \in 1..(i - 1) : s[j] # "-"
         IN  <<SubSeq(s, 1, k - 1)>> \o split(SubSeq(s, k + 1, Len(s)))

\* [int(ss) for ss in parts]: the first failing conversion raises
RECURSIVE IntAll(_)
IntAll(parts) ==
    IF parts = <<>> THEN Ok(<<>>)
    ELSE Cons(int(Head(parts)), IntAll(Tail(parts)))

\* a non-negative number as `width` digits, as strftime's %Y %m %d %H do
RECURSIVE Pad(_, _)
Pad(n, width) ==
    IF width = 0 THEN <<>>
    ELSE Pad(n \div 10, width - 1) \o <<Digits[(n % 10) + 1]>>

(***************************************************************************)
(* The proleptic Gregorian calendar of datetime.                           *)
(***************************************************************************)
IsLeap(y) == y % 4 = 0 /\ (y % 100 # 0 \/ y % 400 = 0)

DaysInMonth(y, m) ==
    IF m = 2 THEN (IF IsLeap(y) THEN 29 ELSE 28)
    ELSE IF m \in {4, 6, 9, 11} THEN 30 ELSE 31

(***************************************************************************)
(* datetime.datetime and datetime.date, as far as Date uses them.          *)
(***************************************************************************)
Field(args, i, default) == IF Len(args) >= i THEN args[i] ELSE default

\* datetime.__new__(cls, year, month, day, hour=0, minute=0, second=0,
\* microsecond=0, tzinfo=None) on integers
datetime_new(args) ==
    IF Len(args) < 3 \/ Len(args) > 7 THEN Raise("TypeError")
    ELSE LET y == args[1]
             m == args[2]
             d == args[3]
         IN  IF /\ y \in MINYEAR..MAXYEAR
                /\ m \in 1..12
                /\ d \in 1..DaysInMonth(y, m)
                /\ Field(args, 4, 0) \in 0..23
                /\ Field(args, 5, 0) \in 0..59
                /\ Field(args, 6, 0) \in 0..59
                /\ Field(args, 7, 0) \in 0..999999
             THEN Ok([kind |-> "datetime", year |-> y, month |-> m, day |-> d,
                      hour |-> Field(args, 4, 0), minute |-> Field(args, 5, 0),
                      second |-> Field(args, 6, 0),
                      microsecond |-> Field(args, 7, 0)])
             ELSE Raise("ValueError")

\* datetime.date(): the date portion of a datetime
date(dt) == [kind |-> "date", year |-> dt.year, month |-> dt.month,
             day |-> dt.day]

\* the fields datetime and date compare, most significant first
CmpFields(x) ==
    IF x.kind = "date" THEN <<x.year, x.month, x.day>>
    ELSE <<x.year, x.month, x.day, x.hour, x.minute, x.second, x.microsecond>>

\* the three-way comparison of two field tuples of one length: -1, 0 or 1
RECURSIVE TupleCmp(_, _)
TupleCmp(p, q) ==
    IF p = <<>> THEN 0
    ELSE IF Head(p) < Head(q) THEN 0 - 1
    ELSE IF Head(p) > Head(q) THEN 1
    ELSE TupleCmp(Tail(p), Tail(q))

\* datetime's and date's rich comparison of two values of one kind
datetime_cmp(x, y) == TupleCmp(CmpFields(x), CmpFields(y))

\* datetime + timedelta(days = n) for n in {1, -1}: the day moves by one and
\* the date is normalised; a year outside MINYEAR..MAXYEAR is an overflow
add_days(dt, n) ==
    LET d == dt.day + n
        dim == DaysInMonth(dt.year, dt.month)
        m == IF d = 0 THEN dt.month - 1
             ELSE IF d > dim THEN dt.month + 1 ELSE dt.month
        y == IF m = 0 THEN dt.year - 1
             ELSE IF m = 13 THEN dt.year + 1 ELSE dt.year
        mm == IF m = 0 THEN 12 ELSE IF m = 13 THEN 1 ELSE m
        dd == IF d = 0 THEN DaysInMonth(y, mm) ELSE IF d > dim THEN 1 ELSE d
    IN  IF y \in MINYEAR..MAXYEAR
        THEN Ok([dt EXCEPT !.kind = "datetime", !.year = y, !.month = mm,
                           !.day = dd])
        ELSE Raise("OverflowError")

\* datetime + timedelta(hours = n) for n in {1, -1}
add_hours(dt, n) ==
    LET h == dt.hour + n
    IN  IF h = 24 THEN add_days([dt EXCEPT !.hour = 0], 1)
        ELSE IF h < 0 THEN add_days([dt EXCEPT !.hour = 23], 0 - 1)
        ELSE Ok([dt EXCEPT !.kind = "datetime", !.hour = h])

\* datetime.strftime with the directives %Y %m %d %H, zero-padded; Python 2
\* refuses a year before 1900
strftime(dt, ndirectives) ==
    IF dt.year < StrftimeMinYear THEN Raise("ValueError")
    ELSE Ok(SubSeq(Pad(dt.year, 4) \o Pad(dt.month, 2) \o Pad(dt.day, 2)
                   \o Pad(dt.hour, 2), 1, 2 + 2 * ndirectives))

(***************************************************************************)
(* class Date(datetime.datetime)                                           *)
(***************************************************************************)
\* Date._parse_input_string(s): the tuple of integers of a date string
Date_parse_input_string(s) ==
    IF \E i \in 1..Len(s) : s[i] = "-" THEN IntAll(split(s))
    ELSE IF Len(s) = 4 THEN IntAll(<<Slice(s, 0, 4)>>)
    ELSE IF Len(s) = 6 THEN IntAll(<<Slice(s, 0, 4), Slice(s, 4, 6)>>)
    ELSE IF Len(s) = 8
    THEN IntAll(<<Slice(s, 0, 4), Slice(s, 4, 6), Slice(s, 6, 8)>>)
    ELSE IF Len(s) = 10
    THEN IntAll(<<Slice(s, 0, 4), Slice(s, 4, 6), Slice(s, 6, 8),
                  Slice(s, 8, 10)>>)
    ELSE Raise("ValueError")

\* obj.precision = precision on the datetime that super().__new__ returned
WithPrecision(dt, precision) ==
    IF ~IsOk(dt) THEN dt
    ELSE Ok([kind |-> "Date", year |-> dt.val.year, month |-> dt.val.month,
             day |-> dt.val.day, hour |-> dt.val.hour,
             minute |-> dt.val.minute, second |-> dt.val.second,
             microsecond |-> dt.val.microsecond, precision |-> precision])

\* Date.__new__(cls, *args) on a tuple of integers: the precision is the
\* number of arguments, a missing month and day are 1
Date_new(args) ==
    WithPrecision(datetime_new(IF Len(args) = 1 THEN <<args[1], 1, 1>>
                               ELSE IF Len(args) = 2
                               THEN <<args[1], args[2], 1>>
                               ELSE args),
                  Len(args))

\* Date(*args) on the outcome of the call that computes args
Date_new_of(args) == IF IsOk(args) THEN Date_new(args.val) ELSE args

\* Date(s) on a single str argument
Date_str(s) == Date_new_of(Date_parse_input_string(s))

\* Date(dt.year, dt.month, dt.day) and Date(dt.year, dt.month, dt.day,
\* dt.hour) on the outcome dt of the timedelta addition
Date_from(dt, n) ==
    IF ~IsOk(dt) THEN dt
    ELSE Date_new(SubSeq(<<dt.val.year, dt.val.month, dt.val.day,
                           dt.val.hour>>, 1, n))

\* Date.format(self), also __str__
Date_format(self) ==
    IF self.precision \in 1..4 THEN strftime(self, self.precision)
    ELSE Raise("ValueError")

\* Date.increment(self)
Date_increment(self) ==
    IF self.precision = 1 THEN Date_new(<<self.year + 1>>)
    ELSE IF self.precision = 2
    THEN IF self.month = 12 THEN Date_new(<<self.year + 1, 1>>)
         ELSE Date_new(<<self.year, self.month + 1>>)
    ELSE IF self.precision = 3 THEN Date_from(add_days(self, 1), 3)
    ELSE IF self.precision = 4 THEN Date_from(add_hours(self, 1), 4)
    ELSE Raise("ValueError")

\* Date.decrement with the bug of a month step that does not borrow from
\* the year (January goes to month 0)
Date_decrement_noBorrow(self) ==
    IF self.precision = 1 THEN Date_new(<<self.year - 1>>)
    ELSE IF self.precision = 2 THEN Date_new(<<self.year, self.month - 1>>)
    ELSE IF self.precision = 3 THEN Date_from(add_days(self, 0 - 1), 3)
    ELSE IF self.precision = 4 THEN Date_from(add_hours(self, 0 - 1), 4)
    ELSE Raise("ValueError")

\* Date.decrement(self)
Date_decrement(self) ==
    IF self.precision = 1 THEN Date_new(<<self.year - 1>>)
    ELSE IF self.precision = 2
    THEN IF self.month = 1 THEN Date_new(<<self.year - 1, 12>>)
         ELSE Date_new(<<self.year, self.month - 1>>)
    ELSE IF self.precision = 3 THEN Date_from(add_days(self, 0 - 1), 3)
    ELSE IF self.precision = 4 THEN Date_from(add_hours(self, 0 - 1), 4)
    ELSE Raise("ValueError")

\* Date.__lt__ with the bug of ordering equal instants by precision
Date_lt_byPrecision(self, other) ==
    IF other.kind = "Date"
    THEN \/ datetime_cmp(self, other) < 0
         \/ datetime_cmp(self, other) = 0 /\ self.precision < other.precision
    ELSE IF other.kind = "datetime" THEN datetime_cmp(self, other) < 0
    ELSE datetime_cmp(date(self), other) < 0

\* Date.__lt__, __le__, __gt__, __ge__: against a datetime the datetime
\* comparison, against anything else the comparison of self.date()
Date_lt(self, other) ==
    IF other.kind \in {"Date", "datetime"} THEN datetime_cmp(self, other) < 0
    ELSE datetime_cmp(date(self), other) < 0

Date_le_strict(self, other) == Date_lt(self, other)

Date_le(self, other) ==
    IF other.kind \in {"Date", "datetime"} THEN datetime_cmp(self, other) <= 0
    ELSE datetime_cmp(date(self), other) <= 0

Date_gt(self, other) ==
    IF other.kind \in {"Date", "datetime"} THEN datetime_cmp(self, other) > 0
    ELSE datetime_cmp(date(self), other) > 0

Date_ge(self, other) ==
    IF other.kind \in {"Date", "datetime"} THEN datetime_cmp(self, other) >= 0
    ELSE datetime_cmp(date(self), other) >= 0

\* Date.__eq__ with the bug of leaving the precision out
Date_eq_ignoresPrecision(self, other) ==
    IF other.kind \in {"Date", "datetime"} THEN datetime_cmp(self, other) = 0
    ELSE datetime_cmp(date(self), other) = 0

\* Date.__eq__: two Dates also need equal precisions
Date_eq(self, other) ==
    IF other.kind = "Date"
    THEN self.precision = other.precision /\ datetime_cmp(self, other) = 0
    ELSE IF other.kind = "datetime" THEN datetime_cmp(self, other) = 0
    ELSE datetime_cmp(date(self), other) = 0

\* Date.__ne__
Date_ne(self, other) == ~Date_eq(self, other)


(***************************************************************************)
(* Scenario 1: one Date is built from a string or from integers, then      *)
(* rendered, or moved by increment and decrement.                          *)
(***************************************************************************)
\* the years of the inputs: the first and last year of datetime, the years
\* around strftime's limit, and the recent years (2000 is a leap year)
RecentYears == 2000..(2000 + NumRecentYears - 1)

EdgeYears == {MINYEAR, StrftimeMinYear - 1, StrftimeMinYear, MAXYEAR}

DateYears == EdgeYears \cup RecentYears

\* digit strings of 4, 6, 8 and 10 characters, fields one past their ranges
FixedWidthStrings ==
    {Pad(y, 4) : y \in DateYears}
    \cup {Pad(y, 4) \o Pad(m, 2) : y \in DateYears, m \in 0..13}
    \cup {Pad(y, 4) \o Pad(m, 2) \o Pad(d, 2) :
              y \in DateYears, m \in 0..13, d \in 0..32}
    \cup {Pad(y, 4) \o Pad(m, 2) \o Pad(d, 2) \o Pad(h, 2) :
              y \in DateYears, m \in 1..12, d \in 1..31, h \in 0..24}

\* strings with hyphens: YYYY followed by one to four more components
HyphenParts == {<<"0", "1">>, <<"1">>, <<"1", "2">>, <<"3", "1">>,
                <<"0", "0">>, <<>>, <<"x">>}

RECURSIVE Join(_)
Join(parts) ==
    IF Len(parts) = 1 THEN parts[1]
    ELSE parts[1] \o <<"-">> \o Join(Tail(parts))

HyphenStrings ==
    {Join(<<Pad(y, 4)>> \o rest) :
         y \in {2000, 1899},
         rest \in UNION {[1..n -> HyphenParts] : n \in 1..3}}
    \cup {Join(<<Pad(2000, 4)>> \o rest) :
              rest \in UNION {[1..n -> {<<"0", "1">>, <<"3", "0">>}] :
                                  n \in 4..8}}
    \cup {<<"-">>, <<"-", "2", "0", "0", "0">>, <<"2", "0", "0", "0", "-">>}

\* strings of other lengths, with letters, blanks or a sign
OtherStrings ==
    {<<>>, <<"2">>, <<"2", "0", "0">>, <<"2", "0", "0", "0", "1">>,
     <<"2", "0", "0", "0", "0", "1", "1">>,
     <<"2", "0", "0", "0", "0", "1", "0", "1", "1">>,
     <<"2", "0", "0", "0", "0", "1", "0", "1", "0", "0", "0">>,
     <<"2", "0", "0", "0", "0", "1", "0", "1", "0", "0", "0", "0">>,
     <<"a", "b", "c", "d">>, <<"2", "0", "x", "0">>,
     <<"2", "0", "0", "0", "x", "1">>, <<"2", "0", "0", "0", "0", "1", "d", "d">>,
     <<"+", "2", "0", "0">>, <<" ", "2", "0", "0">>,
     <<"2", "0", "0", "0", " ", "1">>, <<"2", "0", "0", "0", "+", "1">>}

\* tuples of integers: Date(2000), Date(2000, 1), ...
IntTuples ==
    {<<>>}
    \cup {<<y>> : y \in DateYears \cup {0, 10000}}
    \cup {<<y, m>> : y \in RecentYears, m \in {0, 1, 12, 13}}
    \cup {<<y, m, d>> : y \in RecentYears, m \in {1, 2, 12}, d \in {1, 29, 31}}
    \cup {<<y, m, d, h>> : y \in RecentYears, m \in {1, 12}, d \in {1, 31},
                           h \in {0, 23, 24}}
    \cup {<<2000, 1, 1, 0, 30>>, <<2000, 1, 1, 0, 30, 59>>,
          <<2000, 1, 1, 0, 30, 59, 5>>, <<2000, 1, 1, 0, 30, 59, 5, 0>>}

DateInputs ==
    {[form |-> "str", s |-> s] :
         s \in FixedWidthStrings \cup HyphenStrings \cup OtherStrings}
    \cup {[form |-> "args", args |-> a] : a \in IntTuples}

\* Date(...) on the input of the scenario
Date(in) == IF in.form = "str" THEN Date_str(in.s) ELSE Date_new(in.args)

InitDate ==
    /\ input \in DateInputs
    /\ obj = NoCall
    /\ ret = NoCall
    /\ calls = <<>>

\* d = Date(...)
NewDate ==
    /\ calls = <<>>
    /\ obj' = Date(input)
    /\ calls' = <<"Date">>
    /\ UNCHANGED <<input, ret>>

\* the Date the next method is called on: d, or what the last call returned
Receiver == IF Len(calls) = 1 THEN obj ELSE ret

\* d.format()
Format ==
    /\ calls = <<"Date">>
    /\ IsOk(obj)
    /\ ret' = Date_format(obj.val)
    /\ calls' = Append(calls, "format")
    /\ UNCHANGED <<input, obj>>

\* d.increment(), d.decrement().increment()
Increment ==
    /\ calls \in {<<"Date">>, <<"Date", "decrement">>}
    /\ IsOk(Receiver)
    /\ ret' = Date_increment(Receiver.val)
    /\ calls' = Append(calls, "increment")
    /\ UNCHANGED <<input, obj>>

\* d.decrement(), d.increment().decrement()
Decrement ==
    /\ calls \in {<<"Date">>, <<"Date", "increment">>}
    /\ IsOk(Receiver)
    /\ ret' = Date_decrement(Receiver.val)
    /\ calls' = Append(calls, "decrement")
    /\ UNCHANGED <<input, obj>>

NextDate == NewDate \/ Format \/ Increment \/ Decrement

SpecDate == InitDate /\ [][NextDate]_vars


(***************************************************************************)
(* Properties of scenario 1.                                               *)
(***************************************************************************)
Num2(s, i) == 10 * DigitVal(s[i]) + DigitVal(s[i + 1])

Num4(s) == 100 * Num2(s, 1) + Num2(s, 3)

AllDigits(s) == \A i \in 1..Len(s) : IsDigit(s[i])

\* a fixed-width date string that names a date of the calendar
ValidFixedWidth(s) ==
    /\ Len(s) \in {4, 6, 8, 10}
    /\ AllDigits(s)
    /\ Num4(s) \in MINYEAR..MAXYEAR
    /\ Len(s) >= 6 => Num2(s, 5) \in 1..12
    /\ Len(s) >= 8 => Num2(s, 7) \in 1..DaysInMonth(Num4(s), Num2(s, 5))
    /\ Len(s) = 10 => Num2(s, 9) \in 0..23

FromValidFixedWidth == input.form = "str" /\ ValidFixedWidth(input.s)

\* C7: for every valid fixed-width date string s of length 4, 6, 8 or 10,
\* Date(s) has precision 1, 2, 3 or 4 respectively and Date(s).format()
\* returns exactly s.
C7_ParseFormatRoundTrip ==
    /\ (Len(calls) >= 1 /\ FromValidFixedWidth) =>
           IsOk(obj) /\ obj.val.precision = (Len(input.s) \div 2) - 1
    /\ (calls = <<"Date", "format">> /\ FromValidFixedWidth) =>
           IsOk(ret) /\ ret.val = input.s

\* The round trip of C7 for the years strftime accepts (1900 and later):
\* the only valid strings that format() does not give back are those of
\* earlier years, and on those it raises ValueError.
C7_RoundTripFrom1900 ==
    /\ (Len(calls) >= 1 /\ FromValidFixedWidth) =>
           IsOk(obj) /\ obj.val.precision = (Len(input.s) \div 2) - 1
    /\ (calls = <<"Date", "format">> /\ FromValidFixedWidth) =>
           IF Num4(input.s) >= StrftimeMinYear
           THEN IsOk(ret) /\ ret.val = input.s
           ELSE ret.exc = "ValueError"

\* the steps beyond which datetime has no date
IsLastUnit(d) ==
    /\ d.year = MAXYEAR
    /\ d.precision >= 2 => d.month = 12
    /\ d.precision >= 3 => d.day = 31
    /\ d.precision >= 4 => d.hour = 23

IsFirstUnit(d) ==
    /\ d.year = MINYEAR
    /\ d.precision >= 2 => d.month = 1
    /\ d.precision >= 3 => d.day = 1
    /\ d.precision >= 4 => d.hour = 0

\* C8 as stated: for every Date d of precision 1..4, d.increment() and
\* d.decrement() return Dates, d.increment().decrement() == d and
\* d.decrement().increment() == d (all fields and the precision), and d is
\* still the Date that was built.
C8_RoundTripEveryDate ==
    (Len(calls) >= 2 /\ calls[2] # "format" /\ obj.val.precision \in 1..4) =>
        /\ IsOk(ret)
        /\ Len(calls) = 3 => ret.val = obj.val
        /\ obj = Date(input)

\* C8, amended: for every Date d of precision 1..4, d.increment() returns a
\* Date unless d is the last year, month, day or hour of year 9999, and
\* d.decrement() returns a Date unless d is the first of year 1; whenever
\* the first step returns a Date the step back does too and gives a Date
\* equal to d in every field and in precision; d itself is unchanged.
C8_RoundTripWhereDefined ==
    (Len(calls) >= 2 /\ calls[2] # "format" /\ obj.val.precision \in 1..4) =>
        /\ calls = <<"Date", "increment">> =>
               (IsOk(ret) <=> ~IsLastUnit(obj.val))
        /\ calls = <<"Date", "decrement">> =>
               (IsOk(ret) <=> ~IsFirstUnit(obj.val))
        /\ Len(calls) = 3 => IsOk(ret) /\ ret.val = obj.val
        /\ obj = Date(input)

\* a round trip across the end of a year at hour precision, and one across
\* the end of February of a leap year at day precision
C8_Witness ==
    /\ calls = <<"Date", "increment", "decrement">>
    /\ IsOk(ret)
    /\ ret.val = obj.val
    /\ obj.val.precision = 4
    /\ obj.val.month = 12 /\ obj.val.day = 31 /\ obj.val.hour = 23

\* the forms of date string the documentation names
IsDocumentedForm(s) ==
    \/ Len(s) \in {4, 6, 8, 10} /\ AllDigits(s)
    \/ /\ Len(s) = 10
       /\ s[5] = "-" /\ s[8] = "-"
       /\ \A i \in {1, 2, 3, 4, 6, 7, 9, 10} : IsDigit(s[i])

Components(s) == IF AllDigits(s) THEN (Len(s) \div 2) - 1 ELSE 3

\* C9: Date(s) succeeds only for the forms YYYY, YYYYMM, YYYYMMDD,
\* YYYYMMDDHH and YYYY-MM-DD, with a precision equal to the number of
\* components and so in 1..4; every other string raises ValueError.
C9_OnlyDocumentedFormsParse ==
    (Len(calls) >= 1 /\ input.form = "str") =>
        /\ IsOk(obj) =>
               /\ IsDocumentedForm(input.s)
               /\ obj.val.precision = Components(input.s)
               /\ obj.val.precision \in 1..4
        /\ ~IsDocumentedForm(input.s) => obj.exc = "ValueError"


(***************************************************************************)
(* Scenario 2: a Date is compared with a Date, a datetime or a date.       *)
(***************************************************************************)
\* the integer tuples of the operands: every precision, dates that differ
\* in one field only, and some with minutes (precision 5)
CmpTuples ==
    {<<y>> : y \in RecentYears}
    \cup {<<y, m>> : y \in RecentYears, m \in {1, 2, 12}}
    \cup {<<y, m, d>> : y \in RecentYears, m \in {1, 2, 12}, d \in {1, 28}}
    \cup {<<y, m, d, h>> : y \in RecentYears, m \in {1, 2, 12}, d \in {1, 28},
                           h \in {0, 1, 23}}
    \cup {<<2000, 1, 1, 0, 0>>, <<2000, 1, 1, 0, 30>>}

CmpDates == {Date_new(a).val : a \in CmpTuples}

CmpDatetimes == {datetime_new(a).val : a \in {b \in CmpTuples : Len(b) >= 4}}

CmpPlainDates ==
    {date(datetime_new(a).val) : a \in {b \in CmpTuples : Len(b) = 3}}

InitCompare ==
    /\ input \in [self : CmpDates,
                  other : CmpDates \cup CmpDatetimes \cup CmpPlainDates]
    /\ obj = NoCall
    /\ ret = NoCall
    /\ calls = <<>>

Call(name, value) ==
    /\ calls = <<>>
    /\ ret' = Ok(value)
    /\ calls' = <<name>>
    /\ UNCHANGED <<input, obj>>

\* self < other
Lt == Call("__lt__", Date_lt(input.self, input.other))

\* self <= other
Le == Call("__le__", Date_le(input.self, input.other))

\* self > other
Gt == Call("__gt__", Date_gt(input.self, input.other))

\* self >= other
Ge == Call("__ge__", Date_ge(input.self, input.other))

\* self == other
Eq == Call("__eq__", Date_eq(input.self, input.other))

\* self != other
Ne == Call("__ne__", Date_ne(input.self, input.other))

NextCompare == Lt \/ Le \/ Gt \/ Ge \/ Eq \/ Ne

SpecCompare == InitCompare /\ [][NextCompare]_vars

(***************************************************************************)
(* Properties of scenario 2.                                               *)
(***************************************************************************)
\* the calendar day as a number (months and days counted as if all months
\* had 31 days: the order of the days is kept), and the hour as a number
DayNumber(x) == (x.year * 12 + (x.month - 1)) * 31 + (x.day - 1)

HourNumber(x) == DayNumber(x) * 24 + x.hour

\* a Date of the four precisions of the data model
IsPrecisionDate(x) == x.kind = "Date" /\ x.precision \in 1..4

\* what == is to answer for a Date of precision 1..4 and another value:
\* a Date of the same instant and precision, a datetime of the same
\* instant (whole hour), a plain date of the same day
SameAs(self, other) ==
    IF other.kind = "Date"
    THEN /\ HourNumber(self) = HourNumber(other)
         /\ self.precision = other.precision
    ELSE IF other.kind = "datetime"
    THEN /\ HourNumber(self) = HourNumber(other)
         /\ other.minute = 0 /\ other.second = 0 /\ other.microsecond = 0
    ELSE DayNumber(self) = DayNumber(other)

\* C1: two Dates (precision 1..4) are == exactly when their year, month,
\* day and hour (absent fields 1, 1, 0) are the same and their precisions
\* are the same; != gives the opposite answer, whatever the other operand.
C1_EqIsInstantAndPrecision ==
    (Len(calls) = 1 /\ IsPrecisionDate(input.self)
        /\ (input.other.kind = "Date" => IsPrecisionDate(input.other))) =>
        /\ calls = <<"__eq__">> => ret.val = SameAs(input.self, input.other)
        /\ calls = <<"__ne__">> => ret.val = ~SameAs(input.self, input.other)

\* a year-only Date and a year+month Date of the same January are unequal
C1_Witness ==
    /\ calls = <<"__eq__">>
    /\ input.self.precision = 1
    /\ input.other.kind = "Date" /\ input.other.precision = 2
    /\ input.other.year = input.self.year /\ input.other.month = 1
    /\ ret.val = FALSE

\* C2: between two Dates (precision 1..4) <, <=, > and >= are the order of
\* their year, month, day and hour, whatever the precisions; against a
\* plain date they are the order of the days, whatever the Date's hour.
C2_OrderIsInstantOnly ==
    (Len(calls) = 1 /\ IsPrecisionDate(input.self)) =>
        LET a == IF input.other.kind = "date" THEN DayNumber(input.self)
                 ELSE HourNumber(input.self)
            b == IF input.other.kind = "date" THEN DayNumber(input.other)
                 ELSE HourNumber(input.other)
        IN  (IsPrecisionDate(input.other) \/ input.other.kind = "date") =>
                /\ calls = <<"__lt__">> => ret.val = (a < b)
                /\ calls = <<"__le__">> => ret.val = (a <= b)
                /\ calls = <<"__gt__">> => ret.val = (a > b)
                /\ calls = <<"__ge__">> => ret.val = (a >= b)

\* a Date at 23h is <= the plain date of its own day; and two Dates of one
\* instant and different precisions are reached by the same scenario
C2_Witness ==
    /\ calls = <<"__le__">>
    /\ input.other.kind = "date"
    /\ input.self.precision = 4 /\ input.self.hour = 23
    /\ DayNumber(input.self) = DayNumber(input.other)
    /\ ret.val = TRUE


(***************************************************************************)
(* class DateRange(object)                                                 *)
(*                                                                         *)
(* The arguments of DateRange(...) are records: a str is [kind |-> "str",  *)
(* s |-> ...], an int is [kind |-> "int", n |-> ...], a list, tuple or set *)
(* is [kind |-> "coll", items |-> the items in iteration order, isset |->  *)
(* whether it is a set], and None, Date and DateRange are as above.        *)
(***************************************************************************)
PyStr(s) == [kind |-> "str", s |-> s]

PyInt(n) == [kind |-> "int", n |-> n]

\* Date(x) on one argument of any type: a str is parsed, an int is a year,
\* anything else is refused by datetime.__new__
Date_of(x) ==
    IF x.kind = "str" THEN Date_str(x.s)
    ELSE IF x.kind = "int" THEN Date_new(<<x.n>>)
    ELSE Raise("TypeError")

\* [Date(item) for item in items]: the first failing call raises
RECURSIVE DateAll(_)
DateAll(items) ==
    IF items = <<>> THEN Ok(<<>>)
    ELSE Cons(Date_of(Head(items)), DateAll(Tail(items)))

\* DateRange._parse_input_string(s)
DateRange_parse_input_string(s) ==
    IF Len(split(s)) # 2 THEN Raise("AssertionError")
    ELSE DateAll(<<PyStr(split(s)[1]), PyStr(split(s)[2])>>)

\* '{}-{}'.format(a, b) on the outcomes of str(self.start), str(self.end)
Hyphenated(a, b) ==
    IF ~IsOk(a) THEN a
    ELSE IF ~IsOk(b) THEN b
    ELSE Ok(a.val \o <<"-">> \o b.val)

\* DateRange.format(self), also __str__ and, inside quotes, __repr__
DateRange_format(self) ==
    Hyphenated(Date_format(self.start), Date_format(self.end))

\* print dt_ranges: the repr of each range in turn
RECURSIVE print(_)
print(ranges) ==
    IF ranges = <<>> THEN Ok(None)
    ELSE Then(DateRange_format(Head(ranges)), print(Tail(ranges)))

\* sorted(coll, key=lambda dtr: dtr.start): a stable sort that compares the
\* keys with Date.__lt__
RECURSIVE Insert(_, _)
Insert(sortedSeq, r) ==
    IF sortedSeq = <<>> THEN <<r>>
    ELSE IF Date_lt(r.start, Last(sortedSeq).start)
    THEN Append(Insert(SubSeq(sortedSeq, 1, Len(sortedSeq) - 1), r),
                Last(sortedSeq))
    ELSE Append(sortedSeq, r)

RECURSIVE sorted(_)
sorted(coll) ==
    IF coll = <<>> THEN <<>>
    ELSE Insert(sorted(SubSeq(coll, 1, Len(coll) - 1)), Last(coll))

\* min(coll) and max(coll): the first item no other item is < (is >)
RECURSIVE min(_)
min(coll) ==
    IF Len(coll) = 1 THEN coll[1]
    ELSE LET m == min(SubSeq(coll, 1, Len(coll) - 1))
         IN  IF Date_lt(Last(coll), m) THEN Last(coll) ELSE m

RECURSIVE max(_)
max(coll) ==
    IF Len(coll) = 1 THEN coll[1]
    ELSE LET m == max(SubSeq(coll, 1, Len(coll) - 1))
         IN  IF Date_gt(Last(coll), m) THEN Last(coll) ELSE m

\* a != b on the outcome a of increment or decrement
NeOutcome(a, b) == IF IsOk(a) THEN Ok(Date_ne(a.val, b)) ELSE a

\* a or b on outcomes: b is evaluated only if a is false
Or(a, b) ==
    IF ~IsOk(a) THEN a
    ELSE IF a.val THEN Ok(TRUE)
    ELSE b

\* the test of the loop with the bug of comparing prev.end itself, not its
\* increment, with next.start
NotContiguous_noIncrement(prev, next) ==
    Or(Ok(Date_ne(prev.end, next.start)),
       NeOutcome(Date_decrement(next.start), prev.end))

\* the test of the loop of _parse_input_collection on one adjacent pair
NotContiguous(prev, next) ==
    Or(NeOutcome(Date_increment(prev.end), next.start),
       NeOutcome(Date_decrement(next.start), prev.end))

\* if test: raise ValueError, else go on with the rest of the loop
RaiseIf(test, rest) ==
    IF ~IsOk(test) THEN test
    ELSE IF test.val THEN Raise("ValueError")
    ELSE rest

\* the loop over range(0, len(dt_ranges) - 1), from index i (1-based)
RECURSIVE CheckContiguous(_, _)
CheckContiguous(dt_ranges, i) ==
    IF i >= Len(dt_ranges) THEN Ok(None)
    ELSE RaiseIf(NotContiguous(dt_ranges[i], dt_ranges[i + 1]),
                 CheckContiguous(dt_ranges, i + 1))

\* the branch of _parse_input_collection for DateRanges, once sorted
MergeRanges(dt_ranges) ==
    Then(print(dt_ranges),
         Then(CheckContiguous(dt_ranges, 1),
              IF dt_ranges = <<>> THEN Raise("IndexError")
              ELSE Ok(<<dt_ranges[1].start, Last(dt_ranges).end>>)))

\* DateRange._parse_input_collection(coll)
DateRange_parse_input_collection(coll) ==
    IF \A i \in 1..Len(coll.items) : coll.items[i].kind = "DateRange"
    THEN MergeRanges(sorted(coll.items))
    ELSE IF \A i \in 1..Len(coll.items) : coll.items[i].kind = "Date"
    THEN Ok(<<min(coll.items), max(coll.items)>>)
    ELSE IF Len(coll.items) = 2 /\ ~coll.isset
    THEN DateAll(coll.items)
    ELSE Raise("ValueError")

\* the assertion with the bug of allowing equal bounds
StartNotAfterEnd(start, end) == Date_le(start, end)

\* the condition of `assert start < end`
StartBeforeEnd(start, end) == Date_lt(start, end)

\* if not isinstance(x, Date): x = Date(x)
AsDate(x) == IF x.kind = "Date" THEN Ok(x) ELSE Date_of(x)

\* the end of __init__ on the outcomes of the two coercions: the assertion
\* and the assignment of self.start and self.end
Asserted(s, e) ==
    IF ~IsOk(s) THEN s
    ELSE IF ~IsOk(e) THEN e
    ELSE IF ~StartBeforeEnd(s.val, e.val) THEN Raise("AssertionError")
    ELSE Ok([kind |-> "DateRange", start |-> s.val, end |-> e.val])

\* __init__ after (start, end) has been parsed from a string or collection
Coerced(parsed) ==
    IF ~IsOk(parsed) THEN parsed
    ELSE Asserted(AsDate(parsed.val[1]), AsDate(parsed.val[2]))

\* DateRange.__init__(self, start, end=None)
DateRange_init(start, end) ==
    Coerced(IF start.kind = "str" /\ end = None
            THEN DateRange_parse_input_string(start.s)
            ELSE IF start.kind = "coll" /\ end = None
            THEN DateRange_parse_input_collection(start)
            ELSE Ok(<<start, end>>))

\* overlaps with the bug of a range that does not include its end
DateRange_overlaps_halfOpen(self, item) ==
    IF item.kind = "DateRange"
    THEN Date_lt(self.start, item.end) /\ Date_lt(item.start, self.end)
    ELSE Date_le(self.start, item) /\ Date_gt(self.end, item)

\* DateRange.overlaps(self, item), also __contains__
DateRange_overlaps(self, item) ==
    IF item.kind = "DateRange"
    THEN Date_le(self.start, item.end) /\ Date_le(item.start, self.end)
    ELSE Date_le(self.start, item) /\ Date_ge(self.end, item)

\* contains with the bug of strict containment, as its docstring words it
DateRange_contains_strict(self, item) ==
    IF item.kind = "DateRange"
    THEN Date_lt(self.start, item.start) /\ Date_gt(self.end, item.end)
    ELSE Date_lt(self.start, item) /\ Date_gt(self.end, item)

\* DateRange.contains(self, item)
DateRange_contains(self, item) ==
    IF item.kind = "DateRange"
    THEN Date_le(self.start, item.start) /\ Date_ge(self.end, item.end)
    ELSE Date_le(self.start, item) /\ Date_ge(self.end, item)


(***************************************************************************)
(* Scenario 3: a DateRange is built from a string, from two values, from   *)
(* a collection of Dates or from a collection of DateRanges.               *)
(***************************************************************************)
RangeYears == 2000..(2000 + NumRangeYears - 1)

\* the endpoints: years (1899 and 1900 among them) and two months that
\* follow each other across the end of a year
RangeTuples ==
    {<<StrftimeMinYear - 1>>, <<StrftimeMinYear>>}
    \cup {<<y>> : y \in RangeYears}
    \cup {<<2001, 12>>, <<2002, 1>>}

RangeEnds == {Date_new(a).val : a \in RangeTuples}

TupleString(a) ==
    IF Len(a) = 1 THEN Pad(a[1], 4) ELSE Pad(a[1], 4) \o Pad(a[2], 2)

\* the DateRanges that two endpoints at most one year apart give
RangePool ==
    {DateRange_init(p[1], p[2]).val :
         p \in {q \in RangeEnds \X RangeEnds :
                    Date_lt(q[1], q[2]) /\ q[2].year - q[1].year <= 1}}

SeqsUpTo(S, lo, hi) == UNION {[1..n -> S] : n \in lo..hi}

List(items) == [kind |-> "coll", items |-> items, isset |-> FALSE]

Set(items) == [kind |-> "coll", items |-> items, isset |-> TRUE]

RangeStrings ==
    {PyStr(TupleString(a) \o <<"-">> \o TupleString(b)) :
         a \in RangeTuples, b \in RangeTuples}
    \cup {PyStr(s) : s \in {<<"2", "0", "0", "0">>, <<"-">>,
                            Join(<<Pad(2000, 4), Pad(2001, 4), Pad(2002, 4)>>),
                            Join(<<Pad(2000, 4), <<"2", "0", "x", "1">>>>),
                            Join(<<Pad(2000, 4), Pad(20001, 5)>>)}}

Scalars == RangeEnds \cup {PyInt(2000), PyInt(2002), PyStr(Pad(2001, 4))}

RangeInputs ==
    {<<s, None>> : s \in RangeStrings}
    \cup {<<a, b>> : a \in Scalars, b \in Scalars \cup {None}}
    \cup {<<List(c), None>> : c \in SeqsUpTo(RangePool, 0, MaxColl)}
    \cup {<<Set(c), None>> : c \in SeqsUpTo(RangeEnds, 1, MaxColl)}
    \cup {<<c, None>> :
              c \in {List(<<a, b>>) : a \in Scalars, b \in Scalars}
                  \cup {Set(<<PyInt(2000), PyInt(2002)>>),
                        List(<<PyInt(2000), PyInt(2001), PyInt(2002)>>)}}

InitRange ==
    /\ input \in RangeInputs
    /\ obj = NoCall
    /\ ret = NoCall
    /\ calls = <<>>

\* r = DateRange(start, end)
NewRange ==
    /\ calls = <<>>
    /\ obj' = DateRange_init(input[1], input[2])
    /\ calls' = <<"DateRange">>
    /\ UNCHANGED <<input, ret>>

\* str(r)
FormatRange ==
    /\ calls = <<"DateRange">>
    /\ IsOk(obj)
    /\ ret' = DateRange_format(obj.val)
    /\ calls' = Append(calls, "format")
    /\ UNCHANGED <<input, obj>>

NextRange == NewRange \/ FormatRange

SpecRange == InitRange /\ [][NextRange]_vars


(***************************************************************************)
(* Properties of scenario 3.                                               *)
(***************************************************************************)
Built == Len(calls) >= 1

IsCollOf(x, kind) ==
    /\ x.kind = "coll"
    /\ x.items # <<>>
    /\ \A i \in 1..Len(x.items) : x.items[i].kind = kind

\* the bounds handed over, where the input names them as Dates: the two
\* arguments, or the Dates of a collection
SuppliedDates ==
    IF input[1].kind = "Date" /\ input[2].kind = "Date"
    THEN {input[1], input[2]}
    ELSE IF IsCollOf(input[1], "Date")
    THEN {input[1].items[i] : i \in 1..Len(input[1].items)}
    ELSE {}

\* C3: every DateRange that is built, whatever the form of the arguments,
\* has start < end strictly (as instants); two Dates with start >= end, or
\* a collection of Dates of one single instant, give an error and no range.
C3_StartBeforeEnd ==
    Built =>
        /\ IsOk(obj) => HourNumber(obj.val.start) < HourNumber(obj.val.end)
        /\ (input[1].kind = "Date" /\ input[2].kind = "Date"
              /\ HourNumber(input[1]) >= HourNumber(input[2])) => ~IsOk(obj)
        /\ (SuppliedDates # {}
              /\ \A a, b \in SuppliedDates : HourNumber(a) = HourNumber(b))
               => obj.exc = "AssertionError"

\* a range is built from a collection of ranges, and equal bounds of
\* different precisions (2002 and 200201) are refused
C3_Witness ==
    /\ Built
    /\ IsCollOf(input[1], "DateRange") /\ Len(input[1].items) = 2
    /\ IsOk(obj)
    /\ HourNumber(obj.val.start) < HourNumber(obj.val.end)

\* the ranges of the collection in the order of their starts, and whether
\* each one's end, incremented, is the start of the next
Contiguous(s) ==
    \A i \in 1..(Len(s) - 1) :
        LET up == Date_increment(s[i].end)
        IN  IsOk(up) /\ up.val = s[i + 1].start

\* C5: DateRange(collection of DateRanges) succeeds exactly when, in the
\* order of the starts, every prev.end.increment() equals next.start in
\* all fields and in precision; it then returns the range from the earliest
\* start to the last end, and otherwise raises ValueError.
C5_MergeIffContiguous ==
    (Built /\ IsCollOf(input[1], "DateRange")) =>
        LET s == sorted(input[1].items)
        IN  /\ IsOk(obj) <=> Contiguous(s)
            /\ IsOk(obj) => /\ obj.val.start = s[1].start
                            /\ obj.val.end = Last(s).end
                            /\ \A i \in 1..Len(s) :
                                   HourNumber(obj.val.start)
                                       <= HourNumber(s[i].start)
            /\ ~IsOk(obj) => obj.exc = "ValueError"

\* C5 holds of the collections whose Dates are all of 1900 or later: the
\* other collections are refused by print, which renders every Date.
C5_MergeIffContiguousFrom1900 ==
    (Built /\ IsCollOf(input[1], "DateRange")) =>
        LET s == sorted(input[1].items)
            printable == \A i \in 1..Len(s) :
                             /\ s[i].start.year >= StrftimeMinYear
                             /\ s[i].end.year >= StrftimeMinYear
        IN  /\ IsOk(obj) <=> (Contiguous(s) /\ printable)
            /\ IsOk(obj) => /\ obj.val.start = s[1].start
                            /\ obj.val.end = Last(s).end
            /\ ~IsOk(obj) => obj.exc = "ValueError"

YearRange(y1, y2) ==
    [kind |-> "DateRange", start |-> Date_new(<<y1>>).val,
     end |-> Date_new(<<y2>>).val]

IsMergeOf2000To2003 ==
    /\ Built
    /\ input[1].kind = "coll"
    /\ input[1].items \in {<<YearRange(2000, 2001), YearRange(2002, 2003)>>,
                           <<YearRange(2002, 2003), YearRange(2000, 2001)>>}

\* C6 as stated: DateRange([2000-2001, 2002-2003]) at year precision
\* raises ValueError (not contiguous).
C6_YearStepIsGap == IsMergeOf2000To2003 => obj.exc = "ValueError"

\* C6, amended: DateRange([2000-2001, 2002-2003]) at year precision
\* succeeds and returns the range 2000-2003, in either order of the two:
\* the step from 2001 to 2002 is one increment, so the two are contiguous.
C6_YearStepMerges ==
    IsMergeOf2000To2003 => IsOk(obj) /\ obj.val = YearRange(2000, 2003)

C6_Witness == IsMergeOf2000To2003 /\ IsOk(obj)


(***************************************************************************)
(* Scenario 4: a DateRange is asked whether it overlaps or contains        *)
(* another DateRange, a Date or a plain date.                              *)
(***************************************************************************)
\* the endpoints and points: for each recent year its first and last year,
\* month, day and hour, in every precision
OverlapTuples ==
    {<<y>> : y \in RecentYears}
    \cup {<<y, m>> : y \in RecentYears, m \in {1, 12}}
    \cup {<<y, 1, 1>> : y \in RecentYears}
    \cup {<<y, 12, 31>> : y \in RecentYears}
    \cup {<<y, 1, 1, h>> : y \in RecentYears, h \in {0, 1}}
    \cup {<<y, 12, 31, 23>> : y \in RecentYears}

OverlapDates == {Date_new(a).val : a \in OverlapTuples}

OverlapRanges ==
    {DateRange_init(a, b).val :
         <<a, b>> \in {p \in OverlapDates \X OverlapDates :
                           Date_lt(p[1], p[2])}}

OverlapPlainDates == {date(d) : d \in {x \in OverlapDates : x.precision = 3}}

InitOverlap ==
    /\ input \in [self : OverlapRanges,
                  item : OverlapRanges \cup OverlapDates
                             \cup OverlapPlainDates]
    /\ obj = NoCall
    /\ ret = NoCall
    /\ calls = <<>>

\* self.overlaps(item)
Overlaps == Call("overlaps", DateRange_overlaps(input.self, input.item))

\* item in self: __contains__ returns self.overlaps(item)
InOperator == Call("__contains__", DateRange_overlaps(input.self, input.item))

\* self.contains(item)
Contains == Call("contains", DateRange_contains(input.self, input.item))

NextOverlap == Overlaps \/ InOperator \/ Contains

SpecOverlap == InitOverlap /\ [][NextOverlap]_vars

(***************************************************************************)
(* Properties of scenario 4.                                               *)
(***************************************************************************)
\* the instants at which ranges of the scenario start or end: two ranges
\* that share an instant share the later of their two starts
EndInstants == {HourNumber(d) : d \in OverlapDates}

\* a point lies in a closed range: a Date by its instant, a plain date by
\* its day against the days of the two ends
PointWithin(p, r) ==
    IF p.kind = "date"
    THEN DayNumber(r.start) <= DayNumber(p) /\ DayNumber(p) <= DayNumber(r.end)
    ELSE HourNumber(r.start) <= HourNumber(p)
             /\ HourNumber(p) <= HourNumber(r.end)

LowerCase ==
    <<"a", "b", "c", "d", "e", "f", "g", "h", "i", "j", "k", "l", "m",
      "n", "o", "p", "q", "r", "s", "t", "u", "v", "w", "x", "y", "z">>

UpperCase ==
    <<"A", "B", "C", "D", "E", "F", "G", "H", "I", "J", "K", "L", "M",
      "N", "O", "P", "Q", "R", "S", "T", "U", "V", "W", "X", "Y", "Z">>

\* the characters of the regex classes \d, [a-z], [A-Z], [a-zA-Z]
DigitSet == {Digits[i] : i \in 1..10}

LowerSet == {LowerCase[i] : i \in 1..26}

UpperSet == {UpperCase[i] : i \in 1..26}

AlphaSet == LowerSet \cup UpperSet

\* str.lower() on one character and on a string
lower_char(c) ==
    IF c \in UpperSet
    THEN LowerCase[CHOOSE i \in 1..26 : UpperCase[i] = c]
    ELSE c

lower(s) == [i \in 1..Len(s) |-> lower_char(s[i])]

\* str(n) on an int
RECURSIVE NatStr(_)
NatStr(n) ==
    IF n < 10 THEN <<Digits[n + 1]>>
    ELSE NatStr(n \div 10) \o <<Digits[(n % 10) + 1]>>

str_int(n) == IF n < 0 THEN <<"-">> \o NatStr(0 - n) ELSE NatStr(n)

\* a greedy class* of a regex from index i: the index after the longest run
\* of characters of the class
RunEnd(s, i, class) ==
    CHOOSE j \in i..(Len(s) + 1) :
        /\ \A k \in i..(j - 1) : s[k] \in class
        /\ j = Len(s) + 1 \/ s[j] \notin class

\* the word lists of DateFrequency._parse_input_string
YearWords ==
    {<<"y", "e", "a", "r", "l", "y">>, <<"y", "e", "a", "r">>, <<"y">>,
     <<"a", "n", "n", "u", "a", "l", "l", "y">>,
     <<"a", "n", "n", "u", "a", "l">>, <<"a", "n", "n">>}

SeasonWords ==
    {<<"s", "e", "a", "s", "o", "n", "a", "l", "l", "y">>,
     <<"s", "e", "a", "s", "o", "n", "a", "l">>,
     <<"s", "e", "a", "s", "o", "n">>}

MonthWords ==
    {<<"m", "o", "n", "t", "h", "l", "y">>, <<"m", "o", "n", "t", "h">>,
     <<"m", "o", "n">>, <<"m", "o">>}

WeekWords ==
    {<<"w", "e", "e", "k", "l", "y">>, <<"w", "e", "e", "k">>, <<"w", "k">>,
     <<"w">>}

DayWords ==
    {<<"d", "a", "i", "l", "y">>, <<"d", "a", "y">>, <<"d">>,
     <<"d", "i", "u", "r", "n", "a", "l">>,
     <<"d", "i", "u", "r", "n", "a", "l", "l", "y">>}

HourWords ==
    {<<"h", "o", "u", "r", "l", "y">>, <<"h", "o", "u", "r">>, <<"h", "r">>,
     <<"h">>}

\* the else branch of _parse_input_string: quantity 1 and the unit of the
\* word list that holds s
DateFrequency_word(s) ==
    IF s \in YearWords THEN Ok(<<PyInt(1), PyStr(<<"y", "r">>)>>)
    ELSE IF s \in SeasonWords THEN Ok(<<PyInt(1), PyStr(<<"s", "e">>)>>)
    ELSE IF s \in MonthWords THEN Ok(<<PyInt(1), PyStr(<<"m", "o">>)>>)
    ELSE IF s \in WeekWords THEN Ok(<<PyInt(1), PyStr(<<"w", "k">>)>>)
    ELSE IF s \in DayWords THEN Ok(<<PyInt(1), PyStr(<<"d", "y">>)>>)
    ELSE IF s \in HourWords THEN Ok(<<PyInt(1), PyStr(<<"h", "r">>)>>)
    ELSE Raise("ValueError")

\* re.match(r"(?P<quantity>\d+)[ _]*(?P<unit>[a-zA-Z]+)", s) with the end
\* d of the digits and the end b of the blanks: the groups of the match, or
\* the word lists when there is no match
DateFrequency_groups(s, d, b) ==
    IF d > 1 /\ RunEnd(s, b, AlphaSet) > b
    THEN Ok(<<PyInt(DigitsValue(SubSeq(s, 1, d - 1))),
              PyStr(SubSeq(s, b, RunEnd(s, b, AlphaSet) - 1))>>)
    ELSE DateFrequency_word(s)

\* DateFrequency._parse_input_string(s)
DateFrequency_parse_input_string(s) ==
    DateFrequency_groups(s, RunEnd(s, 1, DigitSet),
                         RunEnd(s, RunEnd(s, 1, DigitSet), {" ", "_"}))

\* the largest number of days of a timedelta
MaxDeltaDays == 999999999

\* datetime.timedelta(days=days, hours=hours), tagged with the quantity and
\* the unit that __new__ sets on it
timedelta(days, hours, quantity, unit) ==
    IF days + (hours \div 24) > MaxDeltaDays
       \/ days + (hours \div 24) < 0 - MaxDeltaDays
    THEN Raise("OverflowError")
    ELSE Ok([kind |-> "DateFrequency",
             days |-> days + (hours \div 24),
             seconds |-> 3600 * (hours % 24),
             quantity |-> quantity, unit |-> unit])

\* the choice of the unit family in __new__ from the first letter of the
\* lower-cased unit
DateFrequency_family(quantity, unit) ==
    IF unit = <<>> THEN Raise("IndexError")
    ELSE IF unit[1] = "y" THEN timedelta(365 * quantity, 0, quantity, <<"y", "r">>)
    ELSE IF unit[1] = "s" THEN timedelta(91 * quantity, 0, quantity, <<"s", "e">>)
    ELSE IF unit[1] = "m" THEN timedelta(30 * quantity, 0, quantity, <<"m", "o">>)
    ELSE IF unit[1] = "w" THEN timedelta(7 * quantity, 0, quantity, <<"w", "k">>)
    ELSE IF unit[1] = "d" THEN timedelta(quantity, 0, quantity, <<"d", "y">>)
    ELSE IF unit[1] = "h" THEN timedelta(0, quantity, quantity, <<"h", "r">>)
    ELSE Raise("ValueError")

\* __new__ from the type check on: args is the outcome of the call that
\* gives (quantity, unit)
DateFrequency_typed(args) ==
    IF ~IsOk(args) THEN args
    ELSE IF args.val[1].kind # "int" \/ args.val[2].kind # "str"
    THEN Raise("ValueError")
    ELSE DateFrequency_family(args.val[1].n, lower(args.val[2].s))

\* DateFrequency.__new__(cls, quantity, unit='')
DateFrequency_new(quantity, unit) ==
    DateFrequency_typed(IF quantity.kind = "str" /\ unit = PyStr(<<>>)
                        THEN DateFrequency_parse_input_string(quantity.s)
                        ELSE Ok(<<quantity, unit>>))

\* DateFrequency.format(self), also __str__
DateFrequency_format(self) == Ok(str_int(self.quantity) \o self.unit)

\* _local_dict[self.unit]
local_dict(unit) ==
    IF unit = <<"m", "o">> THEN Ok(<<"m", "o", "n">>)
    ELSE IF unit = <<"d", "a">> THEN Ok(<<"d", "a", "y">>)
    ELSE Raise("KeyError")

\* DateFrequency.format_local(self)
DateFrequency_format_local(self) ==
    IF self.unit = <<"h", "r">> THEN DateFrequency_format(self)
    ELSE IF self.quantity # 1 THEN Raise("AssertionError")
    ELSE local_dict(self.unit)

\* _frepp_dict[self.unit]
frepp_dict(unit) ==
    IF unit = <<"y", "r">> THEN Ok(<<"a", "n", "n", "u", "a", "l">>)
    ELSE IF unit = <<"s", "e">> THEN Ok(<<"s", "e", "a", "s", "o", "n", "a", "l">>)
    ELSE IF unit = <<"m", "o">> THEN Ok(<<"m", "o", "n", "t", "h", "l", "y">>)
    ELSE IF unit = <<"d", "a">> THEN Ok(<<"d", "a", "i", "l", "y">>)
    ELSE IF unit = <<"h", "r">> THEN Ok(<<"h", "o", "u", "r", "l", "y">>)
    ELSE Raise("KeyError")

\* DateFrequency.format_frepp(self)
DateFrequency_format_frepp(self) ==
    IF self.quantity # 1 THEN Raise("AssertionError")
    ELSE frepp_dict(self.unit)

\* Python's bool and NotImplemented as results of a rich comparison
PyBool(b) == [kind |-> "bool", b |-> b]

NotImplemented == [kind |-> "NotImplemented"]

\* the truth value of a result in `not ...`
truth(v) == IF v.kind = "bool" THEN v.b ELSE TRUE

\* timedelta.__eq__(self, other)
timedelta_eq(self, other) ==
    IF other.kind \in {"timedelta", "DateFrequency"}
    THEN PyBool(self.days = other.days /\ self.seconds = other.seconds)
    ELSE NotImplemented

\* DateFrequency.__eq__ with the bug of comparing the durations
DateFrequency_eq_byDuration(self, other) == timedelta_eq(self, other)

\* DateFrequency.__eq__(self, other)
DateFrequency_eq(self, other) ==
    IF other.kind = "DateFrequency"
    THEN PyBool(self.quantity = other.quantity /\ self.unit = other.unit)
    ELSE timedelta_eq(self, other)

\* DateFrequency.__ne__(self, other)
DateFrequency_ne(self, other) ==
    PyBool(~truth(DateFrequency_eq(self, other)))

(***************************************************************************)
(* Scenario 5: one DateFrequency is built and formatted.                   *)
(***************************************************************************)
\* the quantities: -1 .. MaxQuantity and 24
Quantities == ((0 - 1)..MaxQuantity) \cup {24}

UnitStrings ==
    {<<>>, <<"h", "r">>, <<"H", "r">>, <<"h", "o", "u", "r", "s">>, <<"h">>,
     <<"d", "y">>, <<"d", "a", "y">>, <<"D">>, <<"m", "o">>,
     <<"m", "o", "n">>, <<"y", "r">>, <<"Y", "e", "a", "r">>, <<"s", "e">>,
     <<"w", "k">>, <<"x">>, <<"m", "i", "n">>, <<"1">>}

BlankStrings == {<<>>, <<" ">>, <<"_">>, <<" ", "_">>}

\* quantity+letters composites, the words of the lists, and strings that
\* are neither
FreqStrings ==
    {str_int(q) \o b \o u :
         q \in Quantities, b \in BlankStrings,
         u \in {<<"h", "r">>, <<"h", "o", "u", "r", "l", "y">>, <<"d", "y">>, <<"x">>,
     <<"M", "o", "n">>}}
    \cup YearWords \cup SeasonWords \cup MonthWords \cup WeekWords
    \cup DayWords \cup HourWords
    \cup {<<>>, <<"D", "a", "i", "l", "y">>, <<"3">>, <<"3", "h", "r", "!">>,
     <<"3", "h", "r", " ", "2">>, <<"h", "o", "u", "r", "l", "y", "X">>,
     <<" ", "3", "h", "r">>, <<"0", "3", "h", "r">>, <<"3", "-", "h", "r">>,
     <<"s", "u", "b", "h", "r">>, <<"d", "e", "c">>, <<"f", "x">>,
     <<"1", "e", "5">>}

\* (quantity, unit) as handed to DateFrequency(...)
FreqInputs ==
    {<<PyStr(s), PyStr(<<>>)>> : s \in FreqStrings}
    \cup {<<PyInt(q), PyStr(u)>> : q \in Quantities, u \in UnitStrings}
    \cup {<<PyStr(<<"3">>), PyStr(<<"h", "r">>)>>, <<PyInt(3), PyInt(1)>>,
          <<None, PyStr(<<"h", "r">>)>>, <<PyStr(<<"3", "h", "r">>), PyStr(<<"h", "r">>)>>}

InitFreq ==
    /\ input \in FreqInputs
    /\ obj = NoCall
    /\ ret = NoCall
    /\ calls = <<>>

\* f = DateFrequency(quantity, unit)
NewFreq ==
    /\ calls = <<>>
    /\ obj' = DateFrequency_new(input[1], input[2])
    /\ calls' = <<"DateFrequency">>
    /\ UNCHANGED <<input, ret>>

\* f.format()
FormatFreq ==
    /\ calls = <<"DateFrequency">>
    /\ IsOk(obj)
    /\ ret' = DateFrequency_format(obj.val)
    /\ calls' = Append(calls, "format")
    /\ UNCHANGED <<input, obj>>

\* f.format_local()
FormatLocal ==
    /\ calls = <<"DateFrequency">>
    /\ IsOk(obj)
    /\ ret' = DateFrequency_format_local(obj.val)
    /\ calls' = Append(calls, "format_local")
    /\ UNCHANGED <<input, obj>>

\* f.format_frepp()
FormatFrepp ==
    /\ calls = <<"DateFrequency">>
    /\ IsOk(obj)
    /\ ret' = DateFrequency_format_frepp(obj.val)
    /\ calls' = Append(calls, "format_frepp")
    /\ UNCHANGED <<input, obj>>

NextFreq == NewFreq \/ FormatFreq \/ FormatLocal \/ FormatFrepp

SpecFreq == InitFreq /\ [][NextFreq]_vars

(***************************************************************************)
(* Properties of scenario 5.                                               *)
(***************************************************************************)
FamilyLetters == {"y", "s", "m", "w", "d", "h"}

FamilyUnits ==
    {<<"y", "r">>, <<"s", "e">>, <<"m", "o">>, <<"w", "k">>, <<"d", "y">>,
     <<"h", "r">>}

\* s is a quantity+letters composite: digits, then blanks or underscores,
\* then letters, and nothing else
IsComposite(s) ==
    \E d \in 1..Len(s), b \in 1..Len(s) :
        /\ d <= b
        /\ \A i \in 1..d : s[i] \in DigitSet
        /\ \A i \in (d + 1)..b : s[i] \in {" ", "_"}
        /\ b < Len(s)
        /\ \A i \in (b + 1)..Len(s) : s[i] \in AlphaSet

IsTableWord(s) ==
    s \in YearWords \cup SeasonWords \cup MonthWords \cup WeekWords
          \cup DayWords \cup HourWords

FreqBuilt == calls # <<>> /\ IsOk(obj)

\* C12: every DateFrequency that is built has a unit of {yr, se, mo, wk, dy,
\* hr}; an integer quantity with a unit that does not begin with one of the
\* letters y, s, m, w, d, h (in either case), and a string that is neither
\* a quantity+letters composite nor a word of the lists, raise ValueError.
C12_UnitFamilyOrMalformed ==
    calls # <<>> =>
        /\ IsOk(obj) => obj.val.unit \in FamilyUnits
        /\ (/\ input[1].kind = "int"
            /\ input[2].kind = "str"
            /\ \/ input[2].s = <<>>
               \/ lower_char(input[2].s[1]) \notin FamilyLetters)
           => obj = Raise("ValueError")
        /\ (/\ input[1].kind = "str"
            /\ input[2] = PyStr(<<>>)
            /\ ~IsComposite(input[1].s)
            /\ ~IsTableWord(input[1].s))
           => obj = Raise("ValueError")

\* the part of C12 that the code keeps: the unit of a built DateFrequency
\* is one of the six, and a failure is an IndexError only for the empty
\* unit
C12_UnitInFamily ==
    calls # <<>> =>
        /\ IsOk(obj) => obj.val.unit \in FamilyUnits
        /\ ~IsOk(obj) =>
               \/ obj = Raise("ValueError")
               \/ obj = Raise("IndexError") /\ input[2] = PyStr(<<>>)

\* C13: for a DateFrequency of quantity 1, format_local returns a label for
\* the units mo and dy, and format_frepp returns a label for each of the
\* six units; neither raises.
C13_FormatsReturnLabels ==
    (FreqBuilt /\ Len(calls) = 2 /\ obj.val.quantity = 1) =>
        /\ (calls[2] = "format_local"
            /\ obj.val.unit \in {<<"m", "o">>, <<"d", "y">>})
           => IsOk(ret)
        /\ calls[2] = "format_frepp" => IsOk(ret)

\* the units for which the two functions do return a label at quantity 1
C13_LabelsOfTheTables ==
    (FreqBuilt /\ Len(calls) = 2 /\ obj.val.quantity = 1) =>
        /\ calls[2] = "format_local" =>
               (IsOk(ret) <=> obj.val.unit \in {<<"m", "o">>, <<"h", "r">>})
        /\ calls[2] = "format_frepp" =>
               (IsOk(ret) <=> obj.val.unit \in {<<"y", "r">>, <<"s", "e">>, <<"m", "o">>, <<"h", "r">>})

\* C14: every DateFrequency that is built, from components or from a
\* string, has a quantity that is an integer of at least 1.
C14_QuantityPositive ==
    FreqBuilt => obj.val.quantity \in Nat /\ obj.val.quantity >= 1

(***************************************************************************)
(* Scenario 6: two DateFrequency values are built and compared.            *)
(***************************************************************************)
\* the arguments of the second value
OtherInputs ==
    {<<PyInt(q), PyStr(u)>> :
         q \in Quantities, u \in {<<"h", "r">>, <<"d", "y">>, <<"D", "a", "y">>, <<"m", "o">>,
     <<"y", "r">>, <<"w", "k">>, <<"s", "e">>}}
    \cup {<<PyStr(s), PyStr(<<>>)>> :
              s \in {<<"3", "h", "r">>, <<"d", "a", "i", "l", "y">>, <<"2", "4", "h", "r">>,
     <<"1", "d", "y">>, <<"m", "o", "n">>, <<"h", "o", "u", "r", "l", "y">>}}

\* values that are not DateFrequency: timedeltas of 1 day and of 3 hours,
\* and a str
OtherValues ==
    {<<[kind |-> "timedelta", days |-> 1, seconds |-> 0]>>,
     <<[kind |-> "timedelta", days |-> 0, seconds |-> 3 * 3600]>>,
     <<PyStr(<<"3", "h", "r">>)>>}

InitFreqPair ==
    /\ input \in [self : FreqInputs, other : OtherInputs \cup OtherValues]
    /\ obj = NoCall
    /\ ret = NoCall
    /\ calls = <<>>

\* the two values of a comparison, when both calls return
Operands(self, other) ==
    IF ~IsOk(self) THEN self
    ELSE IF ~IsOk(other) THEN other
    ELSE Ok([self |-> self.val, other |-> other.val])

\* a = DateFrequency(...); b = DateFrequency(...), or b is another value
NewFreqPair ==
    /\ calls = <<>>
    /\ obj' = Operands(DateFrequency_new(input.self[1], input.self[2]),
                       IF Len(input.other) = 1 THEN Ok(input.other[1])
                       ELSE DateFrequency_new(input.other[1],
                                              input.other[2]))
    /\ calls' = <<"DateFrequency">>
    /\ UNCHANGED <<input, ret>>

\* a == b: a result of NotImplemented from both sides ends in the
\* comparison of identities, which is False for two objects
FreqEq ==
    /\ calls = <<"DateFrequency">>
    /\ IsOk(obj)
    /\ ret' = Ok(IF DateFrequency_eq(obj.val.self, obj.val.other)
                        = NotImplemented
                 THEN PyBool(FALSE)
                 ELSE DateFrequency_eq(obj.val.self, obj.val.other))
    /\ calls' = Append(calls, "__eq__")
    /\ UNCHANGED <<input, obj>>

\* a != b
FreqNe ==
    /\ calls = <<"DateFrequency">>
    /\ IsOk(obj)
    /\ ret' = Ok(DateFrequency_ne(obj.val.self, obj.val.other))
    /\ calls' = Append(calls, "__ne__")
    /\ UNCHANGED <<input, obj>>

NextFreqPair == NewFreqPair \/ FreqEq \/ FreqNe

SpecFreqPair == InitFreqPair /\ [][NextFreqPair]_vars

(***************************************************************************)
(* Properties of scenario 6.                                               *)
(***************************************************************************)
Compared == Len(calls) = 2 /\ obj.val.other.kind = "DateFrequency"

SamePair ==
    /\ obj.val.self.quantity = obj.val.other.quantity
    /\ obj.val.self.unit = obj.val.other.unit

BuiltFrom(a, b) == input.self = a /\ input.other = b

\* C11: two DateFrequency values are equal exactly when their quantities
\* and their units are the same, whatever their durations: 24 hr is not
\* 1 dy, "3hr" is (3, hr) and "daily" is (1, dy).
C11_EqIsQuantityAndUnit ==
    Compared =>
        /\ calls[2] = "__eq__" => ret = Ok(PyBool(SamePair))
        /\ calls[2] = "__ne__" => ret = Ok(PyBool(~SamePair))
        /\ BuiltFrom(<<PyInt(24), PyStr(<<"h", "r">>)>>, <<PyInt(1), PyStr(<<"d", "y">>)>>)
           => ret = Ok(PyBool(calls[2] = "__ne__"))
        /\ BuiltFrom(<<PyStr(<<"3", "h", "r">>), PyStr(<<>>)>>, <<PyInt(3), PyStr(<<"h", "r">>)>>)
           => ret = Ok(PyBool(calls[2] = "__eq__"))
        /\ BuiltFrom(<<PyStr(<<"d", "a", "i", "l", "y">>), PyStr(<<>>)>>, <<PyInt(1), PyStr(<<"d", "y">>)>>)
           => ret = Ok(PyBool(calls[2] = "__eq__"))

\* 24 hr has been compared with 1 dy: the durations are the same and the
\* values are not equal
C11_Witness ==
    /\ calls = <<"DateFrequency", "__eq__">>
    /\ BuiltFrom(<<PyInt(24), PyStr(<<"h", "r">>)>>, <<PyInt(1), PyStr(<<"d", "y">>)>>)
    /\ obj.val.self.days = obj.val.other.days
    /\ obj.val.self.seconds = obj.val.other.seconds
    /\ ret = Ok(PyBool(FALSE))

(***************************************************************************)
(* cmip6: the table-id, directory and file-name parsers.                   *)
(***************************************************************************)
\* an exception with the text of its message
RaiseMsg(e, text) == [exc |-> e, val |-> [kind |-> "message", text |-> text]]

\* the character class \w of a str pattern
WordSet == AlphaSet \cup DigitSet \cup {"_"}

\* s[i:] begins with the literal lit (i is 1-based)
StartsWith(s, i, lit) ==
    /\ i + Len(lit) - 1 <= Len(s)
    /\ SubSeq(s, i, i + Len(lit) - 1) = lit

\* the result of re.match: the groups in the order of the pattern and the
\* index after the match
NoMatch == [matched |-> FALSE, groups |-> <<>>, pos |-> 0]

Matched(groups, pos) == [matched |-> TRUE, groups |-> groups, pos |-> pos]

\* the alternatives of the groups of mip_table_regex, in the order the
\* pattern tries them; the last is the empty match of the ?
TablePrefixes ==
    <<<<"A">>, <<"C", "F">>, <<"E">>, <<"I">>, <<"A", "E", "R">>, <<"O">>, <<"L">>, <<"L", "I">>, <<"S", "I">>, <<>>>>

TableSuffixes ==
    <<<<"C", "l", "i", "m", "M", "o", "n">>, <<"L", "e", "v">>, <<"P", "l", "e", "v">>, <<"A", "n", "t">>, <<"G", "r", "e">>, <<>>>>

TableQualifiers == <<<<"P", "t">>, <<"Z">>, <<"O", "f", "f">>, <<>>>>

\* s without the newline that $ lets a match end before
BeforeFinalNewline(s) ==
    IF s # <<>> /\ Last(s) = "\n" THEN SubSeq(s, 1, Len(s) - 1) ELSE s

\* \d?[a-z]*? : an optional digit, then lower-case letters
IsTableFreq(f) ==
    \A i \in 1..Len(f) : f[i] \in LowerSet \/ (i = 1 /\ f[i] \in DigitSet)

\* the ways mip_table_regex matches s or s without its final newline:
\* <<p, n, x, q>> for prefix p, a table_freq of n characters, suffix x and
\* qualifier q
TableMatches(s) ==
    {m \in (1..Len(TablePrefixes)) \X (0..Len(s)) \X (1..Len(TableSuffixes))
              \X (1..Len(TableQualifiers)) :
         /\ Len(TablePrefixes[m[1]]) + m[2] <= Len(s)
         /\ IsTableFreq(SubSeq(s, Len(TablePrefixes[m[1]]) + 1,
                               Len(TablePrefixes[m[1]]) + m[2]))
         /\ TablePrefixes[m[1]]
                \o SubSeq(s, Len(TablePrefixes[m[1]]) + 1,
                          Len(TablePrefixes[m[1]]) + m[2])
                \o TableSuffixes[m[3]] \o TableQualifiers[m[4]]
            \in {s, BeforeFinalNewline(s)}}

\* the order in which backtracking tries them: the earlier alternative of
\* each group first, and for the lazy table_freq the shorter first
TriedBefore(a, b) ==
    \/ a[1] < b[1]
    \/ a[1] = b[1] /\ a[2] < b[2]
    \/ a[1] = b[1] /\ a[2] = b[2] /\ a[3] < b[3]
    \/ a[1] = b[1] /\ a[2] = b[2] /\ a[3] = b[3] /\ a[4] <= b[4]

\* the groupdict of the match that m stands for
TableGroups(s, m) ==
    [table_prefix |-> TablePrefixes[m[1]],
     table_freq |-> SubSeq(s, Len(TablePrefixes[m[1]]) + 1,
                           Len(TablePrefixes[m[1]]) + m[2]),
     table_suffix |-> TableSuffixes[m[3]],
     table_qualifier |-> TableQualifiers[m[4]]]

\* re.match(mip_table_regex, mip_table).groupdict(), or NoMatch
mip_table_match(s) ==
    IF TableMatches(s) = {} THEN NoMatch
    ELSE Matched(TableGroups(s, CHOOSE m \in TableMatches(s) :
                                    \A o \in TableMatches(s) :
                                        TriedBefore(m, o)),
                 Len(s) + 1)

\* CMIP6DateFrequency(quantity, unit=''): DateFrequency.__new__ calls
\* cls._parse_input_string(quantity), and the method of CMIP6DateFrequency
\* takes (quantity, unit)
CMIP6DateFrequency_new(quantity, unit) ==
    IF quantity.kind = "str" /\ unit = PyStr(<<>>)
    THEN Raise("TypeError")
    ELSE DateFrequency_typed(Ok(<<quantity, unit>>))

\* md['date_freq'] = ...; return md
WithDateFreq(md, date_freq) ==
    IF ~IsOk(date_freq) THEN date_freq
    ELSE Ok([table_prefix |-> md.table_prefix,
             table_freq |-> md.table_freq,
             table_suffix |-> md.table_suffix,
             table_qualifier |-> md.table_qualifier,
             date_freq |-> date_freq.val])

\* if md['table_freq'] == 'clim': md['table_freq'] = 'mon'
ClimIsMon(md) ==
    IF md.table_freq = <<"c", "l", "i", "m">> THEN [md EXCEPT !.table_freq = <<"m", "o", "n">>]
    ELSE md

\* parse_mip_table_id after the match
mip_table_md(md) ==
    WithDateFreq(md, CMIP6DateFrequency_new(PyStr(md.table_freq),
                                            PyStr(<<>>)))

\* parse_mip_table_id(mip_table)
parse_mip_table_id(mip_table) ==
    IF mip_table_match(mip_table).matched
    THEN mip_table_md(ClimIsMon(mip_table_match(mip_table).groups))
    ELSE RaiseMsg("ValueError", "Can't parse")

\* ((\w+)/){n} from index i: each group is the longest run of \w, and a
\* slash has to follow it
RECURSIVE WordSlashes(_, _, _)
Grouped(g, m) ==
    IF m.matched THEN Matched(<<g>> \o m.groups, m.pos) ELSE m

WordSlash(s, i, e, n) ==
    IF e = i \/ e > Len(s) \/ s[e] # "/" THEN NoMatch
    ELSE Grouped(SubSeq(s, i, e - 1), WordSlashes(s, e + 1, n - 1))

WordSlashes(s, i, n) ==
    IF n = 0 THEN Matched(<<>>, i)
    ELSE WordSlash(s, i, RunEnd(s, i, WordSet), n)

\* v(?P<version_date>\d+) at the index m.pos, after the eight identifiers
VersionDate(s, m) ==
    IF ~m.matched THEN m
    ELSE IF ~StartsWith(s, m.pos, <<"v">>) THEN NoMatch
    ELSE IF RunEnd(s, m.pos + 1, DigitSet) = m.pos + 1 THEN NoMatch
    ELSE Matched(m.groups
                     \o <<SubSeq(s, m.pos + 1,
                                 RunEnd(s, m.pos + 1, DigitSet) - 1)>>,
                 RunEnd(s, m.pos + 1, DigitSet))

\* CMIP6/ and what follows it, from index i
DirectoryFrom(s, i) ==
    IF ~StartsWith(s, i, <<"C", "M", "I", "P", "6", "/">>) THEN NoMatch
    ELSE VersionDate(s, WordSlashes(s, i + 6, 8))

\* re.match(drs_directory_regex, dir_): the match starts at the first
\* character and may end before the last
drs_directory_match(s) ==
    DirectoryFrom(s, IF StartsWith(s, 1, <<"/">>) THEN 2 ELSE 1)

\* md.update(other) on the outcome of the call that gives other
Updated(md, other) == IF IsOk(other) THEN Ok(other.val @@ md) ELSE other

\* parse_DRS_directory after the match: the groupdict, the version as a
\* Date, and the keys of the table id
drs_directory_md(g, version_date) ==
    IF ~IsOk(version_date) THEN version_date
    ELSE Updated([activity_id |-> g[1], institution_id |-> g[2],
                  source_id |-> g[3], experiment_id |-> g[4],
                  member_id |-> g[5], table_id |-> g[6],
                  variable_id |-> g[7], grid_label |-> g[8],
                  version_date |-> version_date.val],
                 parse_mip_table_id(g[6]))

\* parse_DRS_directory(dir_)
parse_DRS_directory(dir_) ==
    IF drs_directory_match(dir_).matched
    THEN drs_directory_md(drs_directory_match(dir_).groups,
                          Date_str(drs_directory_match(dir_).groups[9]))
    ELSE RaiseMsg("ValueError", "Can't parse")

\* s[i:] can be cut into n groups of \w+ with an underscore between them
RECURSIVE CanSplit(_, _, _)
CanSplit(s, i, n) ==
    IF n = 1 THEN i <= Len(s)
    ELSE \E p \in (i + 1)..(Len(s) - 1) :
             s[p] = "_" /\ CanSplit(s, p + 1, n - 1)

\* the groups of (\w+)_ ... (\w+) on s[i:], all of whose characters are \w:
\* each group in turn is as long as the rest allows
RECURSIVE GreedySplit(_, _, _)
GreedyGroup(s, i, p, n) ==
    <<SubSeq(s, i, p - 1)>> \o GreedySplit(s, p + 1, n - 1)

GreedySplit(s, i, n) ==
    IF n = 1 THEN <<SubSeq(s, i, Len(s))>>
    ELSE GreedyGroup(s, i,
                     CHOOSE p \in (i + 1)..(Len(s) - 1) :
                         /\ s[p] = "_" /\ CanSplit(s, p + 1, n - 1)
                         /\ \A r \in (p + 1)..(Len(s) - 1) :
                                ~(s[r] = "_" /\ CanSplit(s, r + 1, n - 1)),
                     n)

\* the last index of character c in s, 0 when there is none
LastIndex(s, c) ==
    IF \A i \in 1..Len(s) : s[i] # c THEN 0
    ELSE CHOOSE i \in 1..Len(s) :
             s[i] = c /\ \A j \in (i + 1)..Len(s) : s[j] # c

\* the six identifiers and the start date: w is the run of \w the string
\* begins with, u the index of its last underscore; the start date is what
\* follows it, the identifiers are cut from what precedes it
NameGroups(w, u) ==
    IF u = 0 \/ u = Len(w) THEN NoMatch
    ELSE IF \E i \in (u + 1)..Len(w) : w[i] \notin DigitSet THEN NoMatch
    ELSE IF ~CanSplit(SubSeq(w, 1, u - 1), 1, 6) THEN NoMatch
    ELSE Matched(GreedySplit(SubSeq(w, 1, u - 1), 1, 6)
                     \o <<SubSeq(w, u + 1, Len(w))>>,
                 Len(w) + 1)

\* -(?P<end_date>\d+)\.nc at the index m.pos
EndDate(s, m) ==
    IF ~m.matched THEN m
    ELSE IF ~StartsWith(s, m.pos, <<"-">>) THEN NoMatch
    ELSE IF RunEnd(s, m.pos + 1, DigitSet) = m.pos + 1 THEN NoMatch
    ELSE IF ~StartsWith(s, RunEnd(s, m.pos + 1, DigitSet), <<".", "n", "c">>)
    THEN NoMatch
    ELSE Matched(m.groups
                     \o <<SubSeq(s, m.pos + 1,
                                 RunEnd(s, m.pos + 1, DigitSet) - 1)>>,
                 RunEnd(s, m.pos + 1, DigitSet) + 3)

\* the run of \w that s begins with
WordPrefix(s) == SubSeq(s, 1, RunEnd(s, 1, WordSet) - 1)

\* re.match(drs_filename_regex, file_): the match starts at the first
\* character and may end before the last
drs_filename_match(s) ==
    EndDate(s, NameGroups(WordPrefix(s), LastIndex(WordPrefix(s), "_")))

\* md['date_range'] = DateRange(md['start_date'], md['end_date']) and the
\* keys of the table id
drs_filename_ranged(g, start_date, end_date, date_range) ==
    IF ~IsOk(date_range) THEN date_range
    ELSE Updated([variable_id |-> g[1], table_id |-> g[2],
                  source_id |-> g[3], experiment_id |-> g[4],
                  realization_code |-> g[5], grid_label |-> g[6],
                  start_date |-> start_date, end_date |-> end_date,
                  date_range |-> date_range.val],
                 parse_mip_table_id(g[2]))

\* parse_DRS_filename after the match: the two dates, then the range
drs_filename_md(g, start_date, end_date) ==
    IF ~IsOk(start_date) THEN start_date
    ELSE IF ~IsOk(end_date) THEN end_date
    ELSE drs_filename_ranged(g, start_date.val, end_date.val,
                             DateRange_init(start_date.val, end_date.val))

\* parse_DRS_filename(file_)
parse_DRS_filename(file_) ==
    IF drs_filename_match(file_).matched
    THEN drs_filename_md(drs_filename_match(file_).groups,
                         Date_str(drs_filename_match(file_).groups[7]),
                         Date_str(drs_filename_match(file_).groups[8]))
    ELSE RaiseMsg("ValueError", "Can't parse")

\* head.rstrip('/')
RECURSIVE rstrip_slash(_)
rstrip_slash(s) ==
    IF s # <<>> /\ Last(s) = "/" THEN rstrip_slash(SubSeq(s, 1, Len(s) - 1))
    ELSE s

\* os.path.split(path): what precedes the last slash, without its final
\* slashes unless it is made of slashes only, and what follows it
path_split(path) ==
    [head |-> IF \A i \in 1..LastIndex(path, "/") : path[i] = "/"
              THEN SubSeq(path, 1, LastIndex(path, "/"))
              ELSE rstrip_slash(SubSeq(path, 1, LastIndex(path, "/"))),
     tail |-> SubSeq(path, LastIndex(path, "/") + 1, Len(path))]

\* the loop of parse_DRS_path over the common keys and its return: the
\* loop reads the key 'key' of both dicts, and dict.update returns None
CheckCommonKeys(d1, d2) ==
    IF (DOMAIN d1) \cap (DOMAIN d2) = {} THEN Ok(None)
    ELSE IF "key" \notin DOMAIN d1 \/ "key" \notin DOMAIN d2
    THEN Raise("KeyError")
    ELSE IF d1["key"] # d2["key"]
    THEN RaiseMsg("ValueError", "fields inconsistent")
    ELSE Ok(None)

\* parse_DRS_path from the outcomes of the two parsers on
\* statement d1 = ..., then d2 = ...
DRS_path_md(d1, d2) ==
    IF ~IsOk(d1) THEN d1
    ELSE IF ~IsOk(d2) THEN d2
    ELSE CheckCommonKeys(d1.val, d2.val)

\* parse_DRS_path(path)
parse_DRS_path(path) ==
    DRS_path_md(parse_DRS_directory(path_split(path).head),
                parse_DRS_filename(path_split(path).tail))

(***************************************************************************)
(* Scenario 7: a table id is parsed.                                       *)
(***************************************************************************)
TableFreqs ==
    {<<>>, <<"m", "o", "n">>, <<"3", "h", "r">>, <<"c", "l", "i", "m">>,
     <<"f", "x">>, <<"h", "r", "3">>}

TableIds ==
    {TablePrefixes[p] \o f \o TableSuffixes[x] \o TableQualifiers[q] :
         p \in 1..Len(TablePrefixes), f \in TableFreqs,
         x \in 1..Len(TableSuffixes), q \in 1..Len(TableQualifiers)}
    \cup {t \o e : t \in {<<"A", "m", "o", "n">>, <<"3", "h", "r">>,
     <<"A", "E", "R", "m", "o", "n", "Z">>,
     <<"O", "P", "t", "C", "l", "i", "m">>},
                   e \in {<<" ">>, <<"\n">>, <<"X">>, <<"/", "t", "a", "s">>}}
    \cup {<<"a", "m", "o", "n">>, <<"a", " ", "m", "o", "n">>,
     <<"3", "3", "h", "r">>, <<"A", "A", "m", "o", "n">>,
     <<"_", "A", "m", "o", "n">>}

InitTable ==
    /\ input \in TableIds
    /\ obj = NoCall
    /\ ret = NoCall
    /\ calls = <<>>

\* parse_mip_table_id(mip_table)
ParseTable ==
    /\ calls = <<>>
    /\ ret' = parse_mip_table_id(input)
    /\ calls' = <<"parse_mip_table_id">>
    /\ UNCHANGED <<input, obj>>

NextTable == ParseTable

SpecTable == InitTable /\ [][NextTable]_vars

(***************************************************************************)
(* Properties of scenario 7.                                               *)
(***************************************************************************)
\* C17: parsing a table id gives its prefix, frequency, suffix and
\* qualifier with the frequency as a DateFrequency: Amon has unit mo, 3hr
\* has quantity 3 and unit hr, AERmonZ has prefix AER, unit mo and
\* qualifier Z.
C17_TableIdsParse ==
    calls # <<>> =>
        /\ input = <<"A", "m", "o", "n">> =>
               IsOk(ret) /\ ret.val.date_freq.unit = <<"m", "o">>
        /\ input = <<"3", "h", "r">> =>
               /\ IsOk(ret)
               /\ ret.val.date_freq.quantity = 3
               /\ ret.val.date_freq.unit = <<"h", "r">>
        /\ input = <<"A", "E", "R", "m", "o", "n", "Z">> =>
               /\ IsOk(ret)
               /\ ret.val.table_prefix = <<"A", "E", "R">>
               /\ ret.val.date_freq.unit = <<"m", "o">>
               /\ ret.val.table_qualifier = <<"Z">>

\* what the code does instead: every table id that the pattern matches
\* ends in the TypeError of the CMIP6DateFrequency call
C17_MatchedIdsRaiseTypeError ==
    calls # <<>> =>
        /\ ~IsOk(ret)
        /\ ret.exc \in {"TypeError", "ValueError"}
        /\ input \in {<<"A", "m", "o", "n">>, <<"3", "h", "r">>,
                      <<"A", "E", "R", "m", "o", "n", "Z">>} => ret = Raise("TypeError")

(***************************************************************************)
(* Scenario 8: a directory, a file name and the path of both are parsed.   *)
(***************************************************************************)
\* the parts from which the directories and the file names are put
\* together: sep is what stands between the two words of the institution
\* and of the source identifier
DirParts ==
    [lead : {<<>>, <<"d", "a", "t", "a", "/">>},
     sep : {<<"-">>, <<"_">>, <<>>},
     table : {<<"A", "m", "o", "n">>, <<"3", "h", "r">>},
     variable : {<<"t", "a", "s">>, <<"p", "r">>},
     version : {<<"v", "2", "0", "1", "9", "0", "7", "2", "6">>, <<"v", "1">>},
     trail : {<<>>, <<"/">>, <<"/", "e", "x", "t", "r", "a">>}]

FileParts ==
    [variable : {<<"t", "a", "s">>, <<"p", "r">>},
     table : {<<"A", "m", "o", "n">>, <<"3", "h", "r">>},
     sep : {<<"-">>, <<"_">>, <<>>},
     dates : {<<"1", "8", "5", "0", "0", "1", "-", "1", "9", "4", "9", "1", "2">>,
              <<"2", "0", "0", "0", "0", "1", "-", "2", "0", "0", "9", "1", "2">>,
              <<"2", "0", "0", "9", "1", "2", "-", "2", "0", "0", "0", "0", "1">>},
     trail : {<<>>, <<".", "b", "a", "k">>}]

DirOf(d) ==
    d.lead \o <<"C", "M", "I", "P", "6", "/", "C", "M", "I", "P", "/", "N", "O", "A", "A">> \o d.sep \o <<"G", "F", "D", "L", "/", "G", "F", "D", "L">>
        \o d.sep \o <<"E", "S", "M", "4", "/", "h", "i", "s", "t", "o", "r", "i", "c", "a", "l", "/", "r", "1", "i", "1", "p", "1", "f", "1", "/">> \o d.table \o <<"/">>
        \o d.variable \o <<"/", "g", "r", "1", "/">> \o d.version \o d.trail

FileOf(f) ==
    f.variable \o <<"_">> \o f.table \o <<"_", "G", "F", "D", "L">> \o f.sep
        \o <<"E", "S", "M", "4", "_", "h", "i", "s", "t", "o", "r", "i", "c", "a", "l", "_", "r", "1", "i", "1", "p", "1", "f", "1", "_", "g", "r", "1", "_">> \o f.dates \o <<".", "n", "c">>
        \o f.trail

\* os.path.join(dir_, file_)
PathOf(d, f) ==
    IF DirOf(d) # <<>> /\ Last(DirOf(d)) = "/" THEN DirOf(d) \o FileOf(f)
    ELSE DirOf(d) \o <<"/">> \o FileOf(f)

InitDRS ==
    /\ input \in [dir : DirParts, file : FileParts]
    /\ obj = NoCall
    /\ ret = NoCall
    /\ calls = <<>>

\* parse_DRS_directory(dir_)
ParseDirectory ==
    /\ calls = <<>>
    /\ ret' = parse_DRS_directory(DirOf(input.dir))
    /\ calls' = <<"parse_DRS_directory">>
    /\ UNCHANGED <<input, obj>>

\* parse_DRS_filename(file_)
ParseFilename ==
    /\ calls = <<>>
    /\ ret' = parse_DRS_filename(FileOf(input.file))
    /\ calls' = <<"parse_DRS_filename">>
    /\ UNCHANGED <<input, obj>>

\* parse_DRS_path(os.path.join(dir_, file_))
ParsePath ==
    /\ calls = <<>>
    /\ ret' = parse_DRS_path(PathOf(input.dir, input.file))
    /\ calls' = <<"parse_DRS_path">>
    /\ UNCHANGED <<input, obj>>

NextDRS == ParseDirectory \/ ParseFilename \/ ParsePath

SpecDRS == InitDRS /\ [][NextDRS]_vars

(***************************************************************************)
(* Properties of scenario 8.                                               *)
(***************************************************************************)
\* the directory is the template from its first to its last character, up
\* to a separator at either end
DirIsTemplate ==
    /\ input.dir.lead = <<>>
    /\ input.dir.version = <<"v", "2", "0", "1", "9", "0", "7", "2", "6">>
    /\ input.dir.trail \in {<<>>, <<"/">>}

\* the file name is the template from its first to its last character
FileIsTemplate ==
    /\ input.file.dates \in {<<"1", "8", "5", "0", "0", "1", "-", "1", "9", "4", "9", "1", "2">>,
                             <<"2", "0", "0", "0", "0", "1", "-", "2", "0", "0", "9", "1", "2">>}
    /\ input.file.trail = <<>>

\* the fields that both decodings give have the same values
FieldsAgree ==
    /\ input.dir.variable = input.file.variable
    /\ input.dir.table = input.file.table
    /\ input.dir.sep = input.file.sep

IsRecord(v) == DOMAIN v # {"kind"}

\* C15: a path whose directory and file name follow the templates and
\* agree on their shared fields parses to one record with the fields of
\* both; for CMIP6/CMIP/NOAA-GFDL/GFDL-ESM4/historical/r1i1p1f1/Amon/tas/
\* gr1/v20190726 and tas_Amon_GFDL-ESM4_historical_r1i1p1f1_gr1_
\* 185001-194912.nc the record has variable_id tas, table_id Amon and
\* date_range 185001-194912.
C15_ConsistentPathParses ==
    (calls = <<"parse_DRS_path">> /\ DirIsTemplate /\ FileIsTemplate
     /\ FieldsAgree) =>
        /\ IsOk(ret)
        /\ IsRecord(ret.val)
        /\ ret.val.variable_id = input.file.variable
        /\ ret.val.table_id = input.file.table
        /\ ret.val.version_date = Date_str(SubSeq(input.dir.version, 2, 9)).val
        /\ ret.val.date_range
               = DateRange_init(Date_str(SubSeq(input.file.dates, 1, 6)).val,
                                Date_str(SubSeq(input.file.dates, 8, 13)).val).val

\* C16: when the directory and the file name both follow their templates
\* and disagree on a shared field, parse_DRS_path raises the error that
\* reports inconsistent fields, and returns nothing.
C16_InconsistentPathRaises ==
    (calls = <<"parse_DRS_path">> /\ DirIsTemplate /\ FileIsTemplate
     /\ ~FieldsAgree) =>
        ret = RaiseMsg("ValueError", "fields inconsistent")

\* C18: a directory or a file name of which only a beginning matches the
\* template (more segments after the version, more characters after .nc)
\* is refused with the error that reports an input that cannot be parsed.
C18_WholeInputMustMatch ==
    /\ (calls = <<"parse_DRS_directory">>
        /\ input.dir.lead = <<>>
        /\ input.dir.version = <<"v", "2", "0", "1", "9", "0", "7", "2", "6">>
        /\ input.dir.trail = <<"/", "e", "x", "t", "r", "a">>)
       => ret = RaiseMsg("ValueError", "Can't parse")
    /\ (calls = <<"parse_DRS_filename">>
        /\ input.file.dates
               # <<"2", "0", "0", "9", "1", "2", "-",
                   "2", "0", "0", "0", "0", "1">>
        /\ input.file.trail = <<".", "b", "a", "k">>)
       => ret = RaiseMsg("ValueError", "Can't parse")

\* what the code does: no call of the three parsers returns; an input the
\* pattern does not match from its first character is refused, and one
\* that it matches ends in an error of the calls that follow the match
C18_NoParserReturns ==
    calls # <<>> =>
        /\ ~IsOk(ret)
        /\ (calls = <<"parse_DRS_directory">> /\ input.dir.lead # <<>>)
           => ret = RaiseMsg("ValueError", "Can't parse")
        /\ (calls = <<"parse_DRS_directory">> /\ input.dir.sep # <<"-">>
            /\ input.dir.lead = <<>>
            /\ input.dir.version = <<"v", "2", "0", "1", "9", "0", "7", "2", "6">>)
           => ret = Raise("TypeError")
        /\ (calls = <<"parse_DRS_filename">> /\ input.file.sep = <<>>
            /\ input.file.dates # <<"2", "0", "0", "9", "1", "2", "-", "2", "0", "0", "0", "0", "1">>)
           => ret = Raise("TypeError")
        /\ (calls = <<"parse_DRS_filename">> /\ input.file.sep # <<>>
            /\ input.file.dates
                   # <<"2", "0", "0", "9", "1", "2", "-",
                       "2", "0", "0", "0", "0", "1">>)
           => ret = RaiseMsg("ValueError", "Can't parse")

(***************************************************************************)
(* class MultiMap(collections.defaultdict) of src/util.py                  *)
(*                                                                         *)
(* A dict is a function whose domain is its keys. The keys of a MultiMap   *)
(* and the members of its value sets are strs. A value handed to the map   *)
(* is None, PyStr(s), List(items) or Set(items).                           *)
(***************************************************************************)
EmptyDict == [key \in {} |-> {}]

\* d[key] = value
SetItem(d, key, value) == (key :> value) @@ d

\* the next item an iteration over a set or over the keys of a dict yields
NextOf(S) == CHOOSE x \in S : TRUE

\* the items of a list, tuple or set as a set
SetOf(items) == {items[i] : i \in 1..Len(items)}

\* hasattr(value, '__iter__'): true of a list, tuple or set; a str of Python 2
\* has no __iter__
HasIter(value) == value.kind = "coll"

\* coerce_to_iter(value, set)
coerce_to_set(value) ==
    IF value = None THEN {}
    ELSE IF value.kind = "coll" /\ value.isset THEN SetOf(value.items)
    ELSE IF HasIter(value) THEN SetOf(value.items)
    ELSE {value.s}

\* MultiMap(d): the values of d are coerced to sets
MultiMap_init(d) == [key \in DOMAIN d |-> coerce_to_set(d[key])]

\* m[key] = value
MultiMap_setitem(m, key, value) == SetItem(m, key, coerce_to_set(value))

\* the map after reading m[key]: the default factory stores set() under a
\* missing key, through __setitem__
MultiMap_missing(m, key) ==
    IF key \in DOMAIN m THEN m ELSE MultiMap_setitem(m, key, Set(<<>>))

\* what iterating over a value yields: the characters of a str, the items
\* of a list, tuple or set; None is not iterable
Iterated(value) ==
    IF value.kind = "str" THEN Ok({<<value.s[i]>> : i \in 1..Len(value.s)})
    ELSE IF value.kind = "coll" THEN Ok(SetOf(value.items))
    ELSE Raise("TypeError")

\* m[key].update(value): the outcome of the call
set_update(value) == Then(Iterated(value), Ok(None))

\* m[key].update(value): the map afterwards
MultiMap_updated(m, key, value) ==
    IF IsOk(Iterated(value))
    THEN SetItem(m, key, MultiMap_missing(m, key)[key] \cup Iterated(value).val)
    ELSE MultiMap_missing(m, key)

\* d[v].add(key) on a defaultdict(set)
AddKey_overwrite(d, v, key) == SetItem(d, v, {key})

AddKey(d, v, key) ==
    SetItem(d, v, (IF v \in DOMAIN d THEN d[v] ELSE {}) \cup {key})

\* for v in val_set: d[v].add(key)
RECURSIVE AddKeys(_, _, _)
AddKeys(d, val_set, key) ==
    IF val_set = {} THEN d
    ELSE AddKeys(AddKey(d, NextOf(val_set), key), val_set \ {NextOf(val_set)}, key)

\* for key, val_set in self.iteritems(): ...
RECURSIVE InverseOver(_, _, _)
InverseOver(m, keys, d) ==
    IF keys = {} THEN d
    ELSE InverseOver(m, keys \ {NextOf(keys)}, AddKeys(d, m[NextOf(keys)], NextOf(keys)))

\* m.inverse()
MultiMap_inverse(m) == InverseOver(m, DOMAIN m, EmptyDict)

(***************************************************************************)
(* Scenario 9: a MultiMap is built from a dict; then items are set, read   *)
(* and updated in place, and the map is inverted. calls holds the          *)
(* constructor and the latest call.                                        *)
(***************************************************************************)
MapKeys == {<<"t", "a", "s">>, <<"p", "r">>}

MapValues ==
    {None, PyStr(<<"K">>), PyStr(<<"P", "a">>), List(<<<<"K">>, <<"P", "a">>>>),
     Set(<<<<"P">>>>)}

MapDicts ==
    UNION {[keys -> MapValues \ {PyStr(<<"P", "a">>)}] : keys \in SUBSET MapKeys}

InitMap ==
    /\ input \in MapDicts
    /\ obj = NoCall
    /\ ret = NoCall
    /\ calls = <<>>

\* m = MultiMap(d)
NewMap ==
    /\ calls = <<>>
    /\ obj' = Ok(MultiMap_init(input))
    /\ calls' = <<"MultiMap">>
    /\ UNCHANGED <<input, ret>>

\* m[key] = value
SetMapItem ==
    /\ calls # <<>>
    /\ \E key \in MapKeys, value \in MapValues :
           obj' = Ok(MultiMap_setitem(obj.val, key, value))
    /\ ret' = Ok(None)
    /\ calls' = <<"MultiMap", "__setitem__">>
    /\ UNCHANGED input

\* m[key]
GetMapItem ==
    /\ calls # <<>>
    /\ \E key \in MapKeys :
           /\ obj' = Ok(MultiMap_missing(obj.val, key))
           /\ ret' = Ok(MultiMap_missing(obj.val, key)[key])
    /\ calls' = <<"MultiMap", "__getitem__">>
    /\ UNCHANGED input

\* m[key].update(value)
UpdateMapItem ==
    /\ calls # <<>>
    /\ \E key \in MapKeys, value \in MapValues :
           /\ obj' = Ok(MultiMap_updated(obj.val, key, value))
           /\ ret' = set_update(value)
    /\ calls' = <<"MultiMap", "update">>
    /\ UNCHANGED input

\* m.inverse()
InvertMap ==
    /\ calls # <<>>
    /\ ret' = Ok(MultiMap_inverse(obj.val))
    /\ calls' = <<"MultiMap", "inverse">>
    /\ UNCHANGED <<input, obj>>

NextMap == NewMap \/ SetMapItem \/ GetMapItem \/ UpdateMapItem \/ InvertMap

SpecMap == InitMap /\ [][NextMap]_vars

(***************************************************************************)
(* Properties of scenario 9.                                               *)
(***************************************************************************)
Inverted == calls = <<"MultiMap", "inverse">>

\* every string that is a key or a member somewhere in the scenario
MapStrings == MapKeys \cup {<<"K">>, <<"P", "a">>, <<"P">>, <<"a">>}

\* C20: after any insertions and updates, m.inverse() is the exact inverse
\* of the forward relation at the time of the call: for all k and v, k is in
\* inverse()[v] if and only if v is in m[k], and inverse() holds no key
\* without members.
C20_InverseIsExact ==
    Inverted =>
        /\ IsOk(ret)
        /\ \A k \in MapStrings, v \in MapStrings :
               (v \in DOMAIN ret.val /\ k \in ret.val[v])
                   <=> (k \in DOMAIN obj.val /\ v \in obj.val[k])
        /\ \A v \in DOMAIN ret.val : v \in MapStrings /\ ret.val[v] # {}
        /\ \A v \in DOMAIN ret.val : ret.val[v] \subseteq MapStrings

\* the inverse of a map that was changed after its construction, in which
\* one key has two members and one member has two keys
C20_Witness ==
    /\ Inverted
    /\ IsOk(ret)
    /\ obj.val # MultiMap_init(input)
    /\ \E k \in DOMAIN obj.val : Cardinality(obj.val[k]) = 2
    /\ \E v \in DOMAIN ret.val : Cardinality(ret.val[v]) = 2

(***************************************************************************)
(* class CMIP6_CVs(util.Singleton) of src/cmip6.py                         *)
(*                                                                         *)
(* The names of the categories and of the fields of an entry are strings.  *)
(* A category of the table is a dict from the names of its entries, [kind  *)
(* |-> "dict", d |-> ...], or a list of names; an entry is a dict from     *)
(* field names to values or a str that describes it. The object is the     *)
(* record of its attributes _contents and _lookups; the keys of _lookups   *)
(* are pairs <<source, dest>> and its values are MultiMaps.                *)
(***************************************************************************)
PyDict(d) == [kind |-> "dict", d |-> d]

PyMultiMap(d) == [kind |-> "MultiMap", d |-> d]

PySet(members) == [kind |-> "set", members |-> members]

PyList(items) == [kind |-> "list", items |-> items]

\* the keys that __init__ deletes from the table read
RemovedKeys ==
    {"product", "version_metadata", "required_global_attributes",
     "further_info_url", "Conventions", "license"}

\* CMIP6_CVs(): cv is the 'CV' item of the JSON file read
CMIP6_CVs_init(cv) ==
    IF RemovedKeys \subseteq DOMAIN cv
    THEN Ok([contents |-> [c \in DOMAIN cv \ RemovedKeys |-> cv[c]],
             lookups |-> EmptyDict])
    ELSE Raise("KeyError")

\* for k in self._contents[source]: the keys of a dict, the items of a list
TableKeys(table) ==
    IF table.kind = "coll" THEN SetOf(table.items) ELSE DOMAIN table.d

\* self._contents[source][k][dest]: a list and a str are not indexed by a
\* str
Configured(table, k, dest) ==
    IF table.kind = "coll" THEN Raise("TypeError")
    ELSE IF table.d[k].kind = "str" THEN Raise("TypeError")
    ELSE IF dest \notin DOMAIN table.d[k].d THEN Raise("KeyError")
    ELSE Ok(table.d[k].d[dest])

\* mm[k].update(conf), conf being the outcome of the argument
UpdatedWith(mm, k, conf) ==
    IF ~IsOk(conf) THEN conf
    ELSE Then(set_update(conf.val), Ok(MultiMap_updated(mm, k, conf.val)))

\* for k in self._contents[source]: mm[k].update(...)
RECURSIVE BuildLookup(_, _, _, _)
BuildLookup(table, keys, dest, mm) ==
    IF keys = {} \/ ~IsOk(mm) THEN mm
    ELSE BuildLookup(table, keys \ {NextOf(keys)}, dest,
                     UpdatedWith(mm.val, NextOf(keys),
                                 Configured(table, NextOf(keys), dest)))

\* the else branch of get_lookup: the new MultiMap
NewLookup(self, source, dest) ==
    BuildLookup(self.contents[source], TableKeys(self.contents[source]),
                dest, Ok(EmptyDict))

Known(self, source, dest) ==
    source \in DOMAIN self.contents /\ dest \in DOMAIN self.contents

Cached_never(self, source, dest) == FALSE

Cached(self, source, dest) == <<source, dest>> \in DOMAIN self.lookups

\* the value a successful build returns
Built_(mm) == IF IsOk(mm) THEN Ok(PyMultiMap(mm.val)) ELSE mm

\* self.get_lookup(source, dest): the outcome
get_lookup_rebuilds(self, source, dest) ==
    IF ~Known(self, source, dest) THEN Raise("AssertionError")
    ELSE Built_(NewLookup(self, source, dest))

get_lookup(self, source, dest) ==
    IF ~Known(self, source, dest) THEN Raise("AssertionError")
    ELSE IF Cached(self, source, dest)
    THEN Ok(PyMultiMap(self.lookups[<<source, dest>>]))
    ELSE IF Cached(self, dest, source)
    THEN Ok(PyDict(MultiMap_inverse(self.lookups[<<dest, source>>])))
    ELSE Built_(NewLookup(self, source, dest))

\* self.get_lookup(source, dest): the object afterwards
get_lookup_self(self, source, dest) ==
    IF /\ Known(self, source, dest)
       /\ ~Cached(self, source, dest)
       /\ ~Cached(self, dest, source)
       /\ IsOk(NewLookup(self, source, dest))
    THEN [self EXCEPT !.lookups =
              SetItem(@, <<source, dest>>, NewLookup(self, source, dest).val)]
    ELSE self

\* _lookup[item]: a MultiMap gives set() for a missing key, a dict raises
Item(lk, item) ==
    IF lk.kind = "MultiMap"
    THEN Ok(PySet(MultiMap_missing(lk.d, item)[item]))
    ELSE IF item \in DOMAIN lk.d THEN Ok(PySet(lk.d[item]))
    ELSE Raise("KeyError")

\* _lookup after _lookup[item]
AfterItem(lk, item) ==
    IF lk.kind = "MultiMap" THEN PyMultiMap(MultiMap_missing(lk.d, item))
    ELSE lk

\* [_lookup[item] for item in source_items]
RECURSIVE Items(_, _)
Items(lk, items) ==
    IF items = <<>> THEN Ok(<<>>)
    ELSE Cons(Item(lk, Head(items)),
              Items(AfterItem(lk, Head(items)), Tail(items)))

\* _lookup after the list comprehension; the first KeyError ends it
RECURSIVE AfterItems(_, _)
AfterItems(lk, items) ==
    IF items = <<>> \/ ~IsOk(Item(lk, Head(items))) THEN lk
    ELSE AfterItems(AfterItem(lk, Head(items)), Tail(items))

\* the two branches of lookup on _lookup
Looked(lk, source_items) ==
    IF ~IsOk(lk) THEN lk
    ELSE IF HasIter(source_items)
    THEN Then(Items(lk.val, source_items.items),
              Ok(PyList(Items(lk.val, source_items.items).val)))
    ELSE Item(lk.val, source_items.s)

\* self.lookup(source_items, source, dest): the outcome
lookup(self, source_items, source, dest) ==
    Looked(get_lookup(self, source, dest), source_items)

\* the cached MultiMap after the reads of lookup
LookedMap(lk, source_items) ==
    IF HasIter(source_items) THEN AfterItems(lk, source_items.items).d
    ELSE AfterItem(lk, source_items.s).d

\* self with the MultiMap that get_lookup returned read by lookup
LookedSelf(self, lk, source_items, source, dest) ==
    IF IsOk(lk) /\ lk.val.kind = "MultiMap"
    THEN [self EXCEPT !.lookups =
              SetItem(@, <<source, dest>>, LookedMap(lk.val, source_items))]
    ELSE self

\* self.lookup(source_items, source, dest): the object afterwards
lookup_self(self, source_items, source, dest) ==
    LookedSelf(get_lookup_self(self, source, dest),
               get_lookup(self, source, dest), source_items, source, dest)

(***************************************************************************)
(* Scenario 10: a vocabulary table is loaded; then maps between two of its *)
(* categories are requested and items are looked up. calls holds the       *)
(* constructor and the latest call with its arguments.                     *)
(***************************************************************************)
Categories == {"source_id", "institution_id", "grid_label"}

\* what an entry of source_id may hold
SourceEntries ==
    {PyDict([institution_id |-> v]) :
         v \in {List(<<<<"G", "F", "D", "L">>>>), List(<<<<"G", "F", "D", "L">>, <<"N", "C", "A", "R">>>>),
                PyStr(<<"G", "F", "D", "L">>)}}
    \cup {PyDict([label |-> PyStr(<<"E", "S", "M">>)])}

SourceTables ==
    {PyDict(<<"E", "S", "M", "4">> :> e) : e \in SourceEntries}
    \cup {PyDict((<<"E", "S", "M", "4">> :> e) @@ (<<"C", "M", "4">> :> f)) :
              e \in SourceEntries, f \in SourceEntries}

InstitutionTables ==
    {PyDict((<<"G", "F", "D", "L">> :> PyStr(<<"l", "a", "b">>)) @@ (<<"N", "C", "A", "R">> :> PyStr(<<"c", "e", "n", "t", "e", "r">>))),
     PyDict((<<"G", "F", "D", "L">> :> PyDict([source_id |-> List(<<<<"E", "S", "M", "4">>, <<"C", "M", "4">>>>)]))
            @@ (<<"N", "C", "A", "R">> :> PyDict([source_id |-> List(<<<<"C", "M", "4">>>>)]))),
     List(<<<<"G", "F", "D", "L">>, <<"N", "C", "A", "R">>>>)}

\* the 'CV' item of a file with these two categories
CVFile(sources, institutions) ==
    [c \in RemovedKeys |-> PyStr(<<>>)]
    @@ [source_id |-> sources, institution_id |-> institutions]

LookupItems ==
    {PyStr(<<"E", "S", "M", "4">>), PyStr(<<"G", "F", "D", "L">>), List(<<<<"E", "S", "M", "4">>, <<"C", "M", "5">>>>)}

Called(op, source_items, source, dest) ==
    [op |-> op, source_items |-> source_items, source |-> source,
     dest |-> dest]

InitCVs ==
    /\ input \in {CVFile(s, i) : s \in SourceTables, i \in InstitutionTables}
    /\ obj = NoCall
    /\ ret = NoCall
    /\ calls = <<>>

\* cv = CMIP6_CVs()
NewCVs ==
    /\ calls = <<>>
    /\ obj' = CMIP6_CVs_init(input)
    /\ calls' = <<Called("CMIP6_CVs", None, "", "")>>
    /\ UNCHANGED <<input, ret>>

\* cv.get_lookup(source, dest)
GetLookup ==
    /\ calls # <<>>
    /\ IsOk(obj)
    /\ \E source \in Categories, dest \in Categories :
           /\ ret' = get_lookup(obj.val, source, dest)
           /\ obj' = Ok(get_lookup_self(obj.val, source, dest))
           /\ calls' = <<calls[1], Called("get_lookup", None, source, dest)>>
    /\ UNCHANGED input

\* cv.lookup(source_items, source, dest)
Lookup ==
    /\ calls # <<>>
    /\ IsOk(obj)
    /\ \E source_items \in LookupItems, source \in Categories,
          dest \in Categories :
           /\ ret' = lookup(obj.val, source_items, source, dest)
           /\ obj' = Ok(lookup_self(obj.val, source_items, source, dest))
           /\ calls' = <<calls[1],
                         Called("lookup", source_items, source, dest)>>
    /\ UNCHANGED input

NextCVs == NewCVs \/ GetLookup \/ Lookup

SpecCVs == InitCVs /\ [][NextCVs]_vars

(***************************************************************************)
(* Properties of scenario 10.                                              *)
(***************************************************************************)
\* the latest call is op and a map built for (source, dest) served it
Forward(op) ==
    /\ Len(calls) = 2
    /\ calls[2].op = op
    /\ Cached(obj.val, calls[2].source, calls[2].dest)

\* the set that the value configured for an entry stands for: a single
\* value is the one-element set, a list is the set of its elements
ConfiguredSet(value) ==
    IF value.kind = "str" THEN {value.s} ELSE SetOf(value.items)

\* the set configured for entry k of the source category of the latest call
ConfiguredFor(k) ==
    ConfiguredSet(obj.val.contents[calls[2].source].d[k].d[calls[2].dest])

EntriesOfSource == DOMAIN obj.val.contents[calls[2].source].d

\* C19: the map built by get_lookup(source, dest) associates each entry k of
\* the source category with exactly the dest value(s) configured for k (a
\* single value gives the one-element set, a list the set of its elements),
\* and a forward lookup never returns a value that is not configured for the
\* entry.
C19_LookupIsConfigured ==
    /\ Forward("get_lookup") =>
           /\ IsOk(ret)
           /\ \A k \in EntriesOfSource :
                  k \in DOMAIN ret.val.d /\ ret.val.d[k] = ConfiguredFor(k)
    /\ (Forward("lookup") /\ calls[2].source_items = PyStr(<<"E", "S", "M", "4">>)
        /\ calls[2].source = "source_id") =>
           /\ IsOk(ret)
           /\ ret.val.members \subseteq ConfiguredFor(<<"E", "S", "M", "4">>)

\* where every configured value is a list, the map built holds its elements
C19_ListsGiveTheirElements ==
    (/\ Forward("get_lookup")
     /\ \A k \in EntriesOfSource :
            obj.val.contents[calls[2].source].d[k].d[calls[2].dest].kind
                = "coll") =>
        /\ IsOk(ret)
        /\ \A k \in EntriesOfSource :
               k \in DOMAIN ret.val.d /\ ret.val.d[k] = ConfiguredFor(k)

\* a single configured value gives the set of its characters
C19_StrGivesItsCharacters ==
    (/\ Forward("get_lookup")
     /\ calls[2].source = "source_id"
     /\ obj.val.contents["source_id"].d[<<"E", "S", "M", "4">>].d["institution_id"]
            = PyStr(<<"G", "F", "D", "L">>)) =>
        /\ IsOk(ret)
        /\ ret.val.d[<<"E", "S", "M", "4">>] = {<<"G">>, <<"F">>, <<"D">>, <<"L">>}

\* the latest call is a lookup whose map was found or built: the map of the
\* pair, or the one of the inverse pair, is cached
LookedUp ==
    /\ Len(calls) = 2
    /\ calls[2].op = "lookup"
    /\ \/ <<calls[2].source, calls[2].dest>> \in DOMAIN obj.val.lookups
       \/ <<calls[2].dest, calls[2].source>> \in DOMAIN obj.val.lookups

\* the names of the entries of a category of the table
EntryNames(category) ==
    IF obj.val.contents[category].kind = "coll"
    THEN SetOf(obj.val.contents[category].items)
    ELSE DOMAIN obj.val.contents[category].d

\* an item looked up by the latest call has no entry in the source category
HasUnmappedItem ==
    IF calls[2].source_items.kind = "str"
    THEN calls[2].source_items.s \notin EntryNames(calls[2].source)
    ELSE \E i \in 1..Len(calls[2].source_items.items) :
             calls[2].source_items.items[i] \notin EntryNames(calls[2].source)

\* C21: lookup of an item that has no entry in the source category fails
\* with a key-not-found error, in the forward and in the inverse direction,
\* for a single item and for an unmapped member of an iterable.
C21_UnmappedItemRaisesKeyError ==
    (LookedUp /\ HasUnmappedItem) => ret = Raise("KeyError")

\* in the forward direction an unmapped single item gives the empty set
C21_ForwardGivesEmptySet ==
    (/\ LookedUp
     /\ HasUnmappedItem
     /\ calls[2].source_items.kind = "str"
     /\ <<calls[2].source, calls[2].dest>> \in DOMAIN obj.val.lookups) =>
        ret = Ok(PySet({}))

\* C29: lookup is read-only on the cache: after any sequence of lookup
\* calls the cached map for (source, dest) has exactly the keys of the source
\* category, with the value sets it had when it was built.
C29_LookupLeavesCacheAlone ==
    (Len(calls) = 2 /\ IsOk(obj)) =>
        \A pair \in DOMAIN obj.val.lookups :
            /\ DOMAIN obj.val.lookups[pair] = EntryNames(pair[1])
            /\ obj.val.lookups[pair]
                   = NewLookup([obj.val EXCEPT !.lookups = EmptyDict],
                               pair[1], pair[2]).val

\* the value sets of the entries never change, and the keys that lookup adds
\* hold the empty set
C29_OnlyEmptyKeysAdded ==
    (Len(calls) = 2 /\ IsOk(obj)) =>
        \A pair \in DOMAIN obj.val.lookups :
            /\ EntryNames(pair[1]) \subseteq DOMAIN obj.val.lookups[pair]
            /\ \A k \in DOMAIN obj.val.lookups[pair] :
                   IF k \in EntryNames(pair[1])
                   THEN obj.val.lookups[pair][k]
                            = NewLookup(obj.val, pair[1], pair[2]).val[k]
                   ELSE obj.val.lookups[pair][k] = {}

(***************************************************************************)
(* Scenario 11: as scenario 10, and the loaded table is changed between    *)
(* the calls: an entry of source_id is replaced or a category is deleted.  *)
(***************************************************************************)
\* cv._contents['source_id'][k] = entry
EntryReplaced(self, k, entry) ==
    [self EXCEPT !.contents =
         SetItem(@, "source_id",
                 PyDict(SetItem(self.contents["source_id"].d, k, entry)))]

\* del cv._contents[category]
CategoryDeleted(self, category) ==
    [self EXCEPT !.contents =
         [c \in DOMAIN self.contents \ {category} |-> self.contents[c]]]

\* cv._contents['source_id']['ESM4'] = entry
ReplaceEntry ==
    /\ calls # <<>>
    /\ IsOk(obj)
    /\ "source_id" \in DOMAIN obj.val.contents
    /\ \E entry \in SourceEntries :
           obj' = Ok(EntryReplaced(obj.val, <<"E", "S", "M", "4">>, entry))
    /\ calls' = <<calls[1], Called("__setitem__", None, "source_id", "")>>
    /\ UNCHANGED <<input, ret>>

\* del cv._contents[category]
DeleteCategory ==
    /\ calls # <<>>
    /\ IsOk(obj)
    /\ \E category \in DOMAIN obj.val.contents :
           /\ obj' = Ok(CategoryDeleted(obj.val, category))
           /\ calls' = <<calls[1], Called("__delitem__", None, category, "")>>
    /\ UNCHANGED <<input, ret>>

NextCVsChanged ==
    NewCVs \/ GetLookup \/ Lookup \/ ReplaceEntry \/ DeleteCategory

\* the tables loaded have the one entry ESM4 in source_id, and the entries
\* of institution_id name their sources
InitCVsChanged ==
    /\ input \in {CVFile(PyDict(<<"E", "S", "M", "4">> :> e), i) :
                      e \in SourceEntries,
                      i \in {t \in InstitutionTables :
                                t.kind = "dict" /\ t.d[<<"G", "F", "D", "L">>].kind = "dict"}}
    /\ obj = NoCall
    /\ ret = NoCall
    /\ calls = <<>>

SpecCVsChanged == InitCVsChanged /\ [][NextCVsChanged]_vars

(***************************************************************************)
(* Properties of scenario 11.                                              *)
(***************************************************************************)
\* inv is the exact inverse of the map mm
IsInverseOf(inv, mm) ==
    /\ DOMAIN inv = UNION {mm[k] : k \in DOMAIN mm}
    /\ \A v \in DOMAIN inv : inv[v] = {k \in DOMAIN mm : v \in mm[k]}

\* the table is no longer the one that was loaded
TableChanged ==
    /\ IsOk(obj)
    /\ obj.val.contents # CMIP6_CVs_init(input).val.contents

\* what a get_lookup step must do, given the pair asked for
ServedFromCache(source, dest) ==
    /\ <<source, dest>> \in DOMAIN obj.val.lookups =>
           /\ ret' = Ok(PyMultiMap(obj.val.lookups[<<source, dest>>]))
           /\ obj' = obj
    /\ (/\ <<source, dest>> \notin DOMAIN obj.val.lookups
        /\ <<dest, source>> \in DOMAIN obj.val.lookups) =>
           /\ IsOk(ret')
           /\ ret'.val.kind = "dict"
           /\ IsInverseOf(ret'.val.d, obj.val.lookups[<<dest, source>>])
           /\ obj' = obj
    /\ (/\ <<source, dest>> \notin DOMAIN obj.val.lookups
        /\ <<dest, source>> \notin DOMAIN obj.val.lookups) =>
           /\ obj'.val.contents = obj.val.contents
           /\ IF IsOk(ret')
              THEN obj'.val.lookups
                       = SetItem(obj.val.lookups, <<source, dest>>,
                                 ret'.val.d)
              ELSE obj'.val.lookups = obj.val.lookups

\* C22 as stated: get_lookup(source, dest) builds the map only on the first
\* request for the pair and returns the same cached map on every later
\* request; when (dest, source) is cached it returns the exact inverse of
\* that cached map, without reading the table again and without adding a
\* cache entry.
C22_BuiltOnceThenCached ==
    [][(/\ IsOk(obj)
        /\ Len(calls') = 2
        /\ calls'[2].op = "get_lookup")
       => ServedFromCache(calls'[2].source, calls'[2].dest)]_vars

\* C22: while source and dest are categories of the table, get_lookup(source,
\* dest) builds the map only on the first request for the pair and returns
\* the same cached map on every later request; when (dest, source) is cached
\* it returns the exact inverse of that cached map and adds no cache entry.
C22_CachedWhileKnown ==
    [][(/\ IsOk(obj)
        /\ Len(calls') = 2
        /\ calls'[2].op = "get_lookup"
        /\ calls'[2].source \in DOMAIN obj.val.contents
        /\ calls'[2].dest \in DOMAIN obj.val.contents)
       => ServedFromCache(calls'[2].source, calls'[2].dest)]_vars

\* get_lookup has returned a map that differs from the one the table, as
\* changed since, would give
C22_Witness ==
    /\ Len(calls) = 2
    /\ calls[2].op = "get_lookup"
    /\ IsOk(ret)
    /\ TableChanged
    /\ "source_id" \in DOMAIN obj.val.contents
    /\ "institution_id" \in DOMAIN obj.val.contents
    /\ IsOk(NewLookup(obj.val, "source_id", "institution_id"))
    /\ \/ /\ calls[2].source = "source_id"
          /\ ret.val # PyMultiMap(NewLookup(obj.val, "source_id",
                                            "institution_id").val)
       \/ /\ calls[2].source = "institution_id"
          /\ ret.val.kind = "dict"
          /\ ret.val.d # MultiMap_inverse(NewLookup(obj.val, "source_id",
                                                    "institution_id").val)

\* the pair, or its inverse pair, is cached
PairCached(source, dest) ==
    \/ <<source, dest>> \in DOMAIN obj.val.lookups
    \/ <<dest, source>> \in DOMAIN obj.val.lookups

\* C23 as stated: once a lookup for a pair has been performed, no change of
\* the table changes the result of a later lookup for that pair.
C23_TableChangesNeverShow ==
    [][(IsOk(obj) /\ IsOk(obj')) =>
           \A source \in Categories, dest \in Categories :
               PairCached(source, dest) =>
                   \A source_items \in LookupItems :
                       lookup(obj'.val, source_items, source, dest)
                           = lookup(obj.val, source_items, source, dest)]_vars

\* C23: once a lookup for a pair has been performed, a change of the table
\* that leaves both categories in it does not change the result of a later
\* forward or inverse lookup for that pair.
C23_EntryChangesNeverShow ==
    [][(IsOk(obj) /\ IsOk(obj')) =>
           \A source \in Categories, dest \in Categories :
               (/\ PairCached(source, dest)
                /\ source \in DOMAIN obj'.val.contents
                /\ dest \in DOMAIN obj'.val.contents) =>
                   \A source_items \in LookupItems :
                       lookup(obj'.val, source_items, source, dest)
                           = lookup(obj.val, source_items, source, dest)]_vars

\* a lookup has returned values that the table, as changed since, no longer
\* gives
C23_Witness ==
    /\ Len(calls) = 2
    /\ calls[2].op = "lookup"
    /\ calls[2].source = "source_id"
    /\ calls[2].dest = "institution_id"
    /\ calls[2].source_items = PyStr(<<"E", "S", "M", "4">>)
    /\ IsOk(ret)
    /\ TableChanged
    /\ IsOk(NewLookup(obj.val, "source_id", "institution_id"))
    /\ ret.val.members
           # NewLookup(obj.val, "source_id", "institution_id").val[<<"E", "S", "M", "4">>]

(***************************************************************************)
(* class VariableTranslator(util.Singleton) of src/util_mdtf.py            *)
(*                                                                         *)
(* The object is the record of its attributes axes, variables and units:   *)
(* dicts from the names of the conventions. A file read is a dict with the *)
(* key convention_name and, maybe, axes, var_names and units.              *)
(***************************************************************************)
\* coerce_to_iter(value), to a list
coerce_to_list(value) ==
    IF value = None THEN <<>>
    ELSE IF HasIter(value) THEN value.items
    ELSE <<value.s>>

\* list(obj) of a set: its members, in an order that is not defined
ListOfSet(members) == [kind |-> "list of set", members |-> members]

\* coerce_from_iter(obj) of a set
coerce_from_iter(members) ==
    IF Cardinality(members) = 1 THEN PyStr(NextOf(members))
    ELSE ListOfSet(members)

\* d.get(key, dict())
GetOrEmpty(d, key) == IF key \in DOMAIN d THEN d[key] ELSE EmptyDict

\* the axes of the convention CF
CFAxes ==
    [lon |-> [axis |-> "X", MDTF_envvar |-> "lon_coord"],
     lat |-> [axis |-> "Y", MDTF_envvar |-> "lat_coord"],
     lev |-> [axis |-> "Z", MDTF_envvar |-> "lev_coord"],
     time |-> [axis |-> "T", MDTF_envvar |-> "time_coord"]]

\* the three assignments for one convention of a file
WithConvention(self, conv, d) ==
    [axes |-> SetItem(self.axes, conv, GetOrEmpty(d, "axes")),
     variables |->
         SetItem(self.variables, conv,
                 MultiMap_init(GetOrEmpty(d, "var_names"))),
     units |->
         SetItem(self.units, conv, MultiMap_init(GetOrEmpty(d, "units")))]

\* for conv in util.coerce_to_iter(d['convention_name']): ...
RECURSIVE AddConventions(_, _, _)
AddConventions(self, convs, d) ==
    IF convs = <<>> \/ ~IsOk(self) THEN self
    ELSE IF Head(convs) \in DOMAIN self.val.variables
    THEN Raise("ConventionError")
    ELSE AddConventions(Ok(WithConvention(self.val, Head(convs), d)),
                        Tail(convs), d)

\* the body of the loop over the files: d is what read_json returns
FileRead(self, d) ==
    IF "convention_name" \notin DOMAIN d THEN Raise("KeyError")
    ELSE AddConventions(self, coerce_to_list(d["convention_name"]), d)

\* for filename in config_files: ...
RECURSIVE ReadFiles(_, _)
ReadFiles(self, files) ==
    IF files = <<>> \/ ~IsOk(self) THEN self
    ELSE ReadFiles(FileRead(self, Head(files)), Tail(files))

\* VariableTranslator(): files is what the configuration files hold
VariableTranslator_init(files) ==
    ReadFiles(Ok([axes |-> (<<"C", "F">> :> CFAxes),
                  variables |-> (<<"C", "F">> :> EmptyDict),
                  units |-> (<<"C", "F">> :> EmptyDict)]),
              files)

\* the failed assertion of toCF and fromCF, with its message
NotRecognized(convention) ==
    RaiseMsg("AssertionError",
             <<"Variable name translation doesn't recognize {}.",
               convention>>)

\* the except clause of toCF and fromCF: the line is printed and the
\* KeyError, which holds the key only, is raised again
NotDefined(varname_in, convention) ==
    [exc |-> "KeyError",
     val |-> [kind |-> "KeyError", key |-> varname_in,
              printed |-> <<"ERROR: name {} not defined for convention {}.",
                            varname_in, convention>>]]

\* inv_lookup[varname_in], coerced
InverseItem(inv_lookup, varname_in, convention) ==
    IF varname_in \in DOMAIN inv_lookup
    THEN Ok(coerce_from_iter(inv_lookup[varname_in]))
    ELSE NotDefined(varname_in, convention)

\* self.toCF(convention, varname_in)
toCF(self, convention, varname_in) ==
    IF convention = <<"C", "F">> THEN Ok(PyStr(varname_in))
    ELSE IF convention \notin DOMAIN self.variables
    THEN NotRecognized(convention)
    ELSE InverseItem(MultiMap_inverse(self.variables[convention]),
                     varname_in, convention)

\* m.get_(key): whether KeyError is raised
MultiMap_get_raises_never(m, key) == FALSE

MultiMap_get_raises(m, key) == key \notin DOMAIN m

\* m.get_(key)
MultiMap_get_(m, key) ==
    IF MultiMap_get_raises(m, key) THEN Raise("KeyError")
    ELSE Ok(coerce_from_iter(MultiMap_missing(m, key)[key]))

\* the map after m.get_(key)
MultiMap_got(m, key) ==
    IF MultiMap_get_raises(m, key) THEN m ELSE MultiMap_missing(m, key)

\* the try statement of fromCF
Translated(outcome, varname_in, convention) ==
    IF outcome.exc = "KeyError" THEN NotDefined(varname_in, convention)
    ELSE outcome

\* self.fromCF(convention, varname_in)
fromCF(self, convention, varname_in) ==
    IF convention = <<"C", "F">> THEN Ok(PyStr(varname_in))
    ELSE IF convention \notin DOMAIN self.variables
    THEN NotRecognized(convention)
    ELSE Translated(MultiMap_get_(self.variables[convention], varname_in),
                    varname_in, convention)

\* self after self.fromCF(convention, varname_in)
fromCF_self(self, convention, varname_in) ==
    IF convention = <<"C", "F">> \/ convention \notin DOMAIN self.variables
    THEN self
    ELSE [self EXCEPT !.variables[convention] =
              MultiMap_got(@, varname_in)]

(***************************************************************************)
(* Scenario 12: the translator is built from the files of the conventions; *)
(* then names are translated to and from CF. calls holds the constructor   *)
(* and the latest call with its arguments.                                 *)
(***************************************************************************)
ConfigFiles ==
    {[convention_name |-> PyStr(<<"C", "M", "I", "P">>),
      var_names |-> (<<"p", "r", "_", "v", "a", "r">> :> PyStr(<<"p", "r">>))
                    @@ (<<"t", "a", "s", "_", "v", "a", "r">> :> PyStr(<<"t", "a", "s">>))],
     [convention_name |-> List(<<<<"N", "C", "A", "R">>, <<"C", "E", "S", "M">>>>),
      var_names |-> (<<"p", "r", "_", "v", "a", "r">> :> List(<<<<"P", "R", "E", "C", "T">>, <<"P", "R", "E", "C", "C">>>>))
                    @@ (<<"t", "a", "s", "_", "v", "a", "r">> :> PyStr(<<"T">>))
                    @@ (<<"t", "a", "_", "v", "a", "r">> :> PyStr(<<"T">>)),
      units |-> (<<"p", "r", "_", "v", "a", "r">> :> PyStr(<<"m", "m">>))],
     [convention_name |-> PyStr(<<"G", "F", "D", "L">>),
      axes |-> [lon |-> [axis |-> "X"]]],
     [convention_name |-> PyStr(<<"C", "F">>),
      var_names |-> (<<"p", "r", "_", "v", "a", "r">> :> PyStr(<<"p", "r">>))],
     [convention_name |-> List(<<<<"C", "M", "I", "P">>>>),
      var_names |-> (<<"p", "r", "_", "v", "a", "r">> :> None)]}

ConventionNames == {<<"C", "F">>, <<"C", "M", "I", "P">>,
                    <<"N", "C", "A", "R">>, <<"G", "F", "D", "L">>,
                    <<"E", "C", "M", "W", "F">>}

VariableNames == {<<"p", "r", "_", "v", "a", "r">>,
                  <<"t", "a", "s", "_", "v", "a", "r">>,
                  <<"t", "a", "_", "v", "a", "r">>, <<"p", "r">>,
                  <<"t", "a", "s">>, <<"P", "R", "E", "C", "T">>, <<"T">>,
                  <<"r", "l", "u", "t">>}

TranslatorCall(op, convention, varname_in) ==
    [op |-> op, convention |-> convention, varname_in |-> varname_in]

InitTranslator ==
    /\ input \in SeqsUpTo(ConfigFiles, 0, 2)
    /\ obj = NoCall
    /\ ret = NoCall
    /\ calls = <<>>

\* translate = VariableTranslator()
NewTranslator ==
    /\ calls = <<>>
    /\ obj' = VariableTranslator_init(input)
    /\ calls' = <<TranslatorCall("VariableTranslator", <<>>, <<>>)>>
    /\ UNCHANGED <<input, ret>>

\* translate.toCF(convention, varname_in)
ToCF ==
    /\ calls # <<>>
    /\ IsOk(obj)
    /\ \E convention \in ConventionNames, varname_in \in VariableNames :
           /\ ret' = toCF(obj.val, convention, varname_in)
           /\ calls' = <<calls[1],
                         TranslatorCall("toCF", convention, varname_in)>>
    /\ UNCHANGED <<input, obj>>

\* translate.fromCF(convention, varname_in)
FromCF ==
    /\ calls # <<>>
    /\ IsOk(obj)
    /\ \E convention \in ConventionNames, varname_in \in VariableNames :
           /\ ret' = fromCF(obj.val, convention, varname_in)
           /\ obj' = Ok(fromCF_self(obj.val, convention, varname_in))
           /\ calls' = <<calls[1],
                         TranslatorCall("fromCF", convention, varname_in)>>
    /\ UNCHANGED input

NextTranslator == NewTranslator \/ ToCF \/ FromCF

SpecTranslator == InitTranslator /\ [][NextTranslator]_vars

(***************************************************************************)
(* Properties of scenario 12.                                              *)
(***************************************************************************)
\* the latest call is a translation under a convention other than CF
TranslationCalled ==
    /\ Len(calls) = 2
    /\ calls[2].op \in {"toCF", "fromCF"}
    /\ calls[2].convention # <<"C", "F">>

\* the convention of the latest call was loaded from a file
ConventionLoaded ==
    \E i \in 1..Len(input) :
        \E j \in 1..Len(coerce_to_list(input[i].convention_name)) :
            coerce_to_list(input[i].convention_name)[j] = calls[2].convention

\* the name of the latest call is defined under its convention: as a CF name
\* for fromCF, as a name of the convention for toCF
NameDefined ==
    IF calls[2].op = "fromCF"
    THEN calls[2].varname_in \in DOMAIN obj.val.variables[calls[2].convention]
    ELSE \E k \in DOMAIN obj.val.variables[calls[2].convention] :
             calls[2].varname_in \in obj.val.variables[calls[2].convention][k]

C24_WitnessUnknownConvention ==
    /\ TranslationCalled
    /\ ~ConventionLoaded
    /\ ret.exc = "AssertionError"

(***************************************************************************)
(* Scenario 13: two callers run get_lookup(source, dest) on the same       *)
(* CMIP6_CVs object, their statements interleaved. There is no lock in     *)
(* get_lookup, so a caller may be suspended between the test of the cache  *)
(* and the assignment to it. input holds the table and the pair; obj the   *)
(* object, with the caller whose MultiMap is the cached one (the identity  *)
(* of the object); ret the outcome of each caller; calls, for each caller, *)
(* where it is in get_lookup, the map it is building, whether it made a    *)
(* map and whose map it returned.                                          *)
(***************************************************************************)
Callers == {1, 2}

Caller(at, mm, built, got) ==
    [op |-> "get_lookup", at |-> at, mm |-> mm, built |-> built, got |-> got]

InitRace ==
    /\ input \in [cv : {CVFile(PyDict(<<"E", "S", "M", "4">> :> e), i) :
                            e \in SourceEntries, i \in InstitutionTables},
                  source : Categories, dest : Categories]
    /\ obj = Ok([contents |-> CMIP6_CVs_init(input.cv).val.contents,
                 lookups |-> EmptyDict, builder |-> EmptyDict])
    /\ ret = [t \in Callers |-> NoCall]
    /\ calls = [t \in Callers |-> Caller("assert", EmptyDict, FALSE, 0)]

\* the caller is done, with an outcome
Returned(t, outcome, built, got) ==
    /\ ret' = [ret EXCEPT ![t] = outcome]
    /\ calls' = [calls EXCEPT ![t] = Caller("done", EmptyDict, built, got)]

\* the asserts and the tests of the cache; in the else branch the new
\* MultiMap is made
TestCache(t) ==
    /\ calls[t].at = "assert"
    /\ IF ~Known(obj.val, input.source, input.dest)
       THEN Returned(t, Raise("AssertionError"), FALSE, 0)
       ELSE IF Cached(obj.val, input.source, input.dest)
       THEN Returned(t,
                     Ok(PyMultiMap(
                            obj.val.lookups[<<input.source, input.dest>>])),
                     FALSE,
                     obj.val.builder[<<input.source, input.dest>>])
       ELSE IF Cached(obj.val, input.dest, input.source)
       THEN Returned(t,
                     Ok(PyDict(MultiMap_inverse(
                            obj.val.lookups[<<input.dest, input.source>>]))),
                     FALSE, 0)
       ELSE /\ calls' = [calls EXCEPT ![t] =
                             Caller("for", EmptyDict, TRUE, 0)]
            /\ ret' = ret
    /\ UNCHANGED <<input, obj>>

\* the loop that fills the new map from the table
FillMap(t) ==
    /\ calls[t].at = "for"
    /\ IF IsOk(NewLookup(obj.val, input.source, input.dest))
       THEN /\ calls' = [calls EXCEPT ![t] =
                             Caller("cache",
                                    NewLookup(obj.val, input.source,
                                              input.dest).val,
                                    TRUE, 0)]
            /\ ret' = ret
       ELSE Returned(t, NewLookup(obj.val, input.source, input.dest),
                     TRUE, 0)
    /\ UNCHANGED <<input, obj>>

\* self._lookups[(source, dest)] = mm; return mm
CacheMap(t) ==
    /\ calls[t].at = "cache"
    /\ obj' = Ok([obj.val EXCEPT
                      !.lookups = SetItem(@, <<input.source, input.dest>>,
                                          calls[t].mm),
                      !.builder = SetItem(@, <<input.source, input.dest>>,
                                          t)])
    /\ Returned(t, Ok(PyMultiMap(calls[t].mm)), TRUE, t)
    /\ UNCHANGED input

TestCacheStep == \E t \in Callers : TestCache(t)

FillMapStep == \E t \in Callers : FillMap(t)

CacheMapStep == \E t \in Callers : CacheMap(t)

NextRace == TestCacheStep \/ FillMapStep \/ CacheMapStep

SpecRace == InitRace /\ [][NextRace]_vars

(***************************************************************************)
(* Properties of scenario 13.                                              *)
(***************************************************************************)
\* both callers have returned a map
BothReturned ==
    \A t \in Callers : calls[t].at = "done" /\ IsOk(ret[t])

\* C25: when two callers run get_lookup(source, dest) concurrently for a
\* pair that is not cached, the map for the pair is constructed at most
\* once and both callers obtain the same cached map.
C25_BuiltAtMostOnce ==
    BothReturned =>
        /\ ~(calls[1].built /\ calls[2].built)
        /\ calls[1].got = calls[2].got

\* the maps that the two callers return hold the same items
C25_SameItems ==
    BothReturned => ret[1].val.d = ret[2].val.d

(***************************************************************************)
(* A further property of scenario 4.                                       *)
(***************************************************************************)
\* the receiver is a range of two years, as DateRange('Y1-Y2') builds it,
\* and the item is a plain date of its last year
DayOfLastYear ==
    /\ input.self.start.precision = 1
    /\ input.self.end.precision = 1
    /\ input.item.kind = "date"
    /\ input.item.year = input.self.end.year

\* C26: a plain calendar date that falls inside the last year named by a
\* year-precision range is in the range: for a DateRange built from "Y1-Y2"
\* and a date d of year Y2, both d in range and range.overlaps(d) are True.
C26_DayOfLastYearIsInRange ==
    (/\ Len(calls) = 1
     /\ calls[1] \in {"overlaps", "__contains__"}
     /\ DayOfLastYear) =>
        ret = Ok(TRUE)

\* of the days of the last year only its first is in the range
C26_OnlyFirstDayIsInRange ==
    (/\ Len(calls) = 1
     /\ calls[1] \in {"overlaps", "__contains__"}
     /\ DayOfLastYear) =>
        ret = Ok(input.item.month = 1 /\ input.item.day = 1)

(***************************************************************************)
(* A further property of scenario 2.                                       *)
(***************************************************************************)
\* self == other was evaluated on two Dates of precision 1..4
DatesCompared ==
    /\ calls = <<"__eq__">>
    /\ IsPrecisionDate(input.self)
    /\ IsPrecisionDate(input.other)

\* each of the two Dates is <= the other
EachLeOther ==
    Date_le(input.self, input.other) /\ Date_le(input.other, input.self)

\* how many of a < b, a == b, a > b hold
HoldingOf3 ==
    (IF Date_lt(input.self, input.other) THEN 1 ELSE 0)
    + (IF Date_eq(input.self, input.other) THEN 1 ELSE 0)
    + (IF Date_gt(input.self, input.other) THEN 1 ELSE 0)

\* C28 as stated: for two Dates a and b of any precisions, a <= b and b <= a
\* together imply a == b, and exactly one of a < b, a == b, a > b holds.
C28_MutualLeIsEq ==
    DatesCompared =>
        /\ EachLeOther => ret = Ok(TRUE)
        /\ HoldingOf3 = 1

\* C28: for two Dates a and b of the same precision, a == b exactly when
\* a <= b and b <= a, and exactly one of a < b, a == b, a > b holds; for two
\* Dates of different precisions a <= b and b <= a hold exactly when they
\* are the same instant, and then a == b is false and none of the three
\* holds.
C28_MutualLeIsEqAtOnePrecision ==
    DatesCompared =>
        /\ input.self.precision = input.other.precision =>
               /\ ret = Ok(EachLeOther)
               /\ HoldingOf3 = 1
        /\ input.self.precision # input.other.precision =>
               /\ ret = Ok(FALSE)
               /\ EachLeOther
                      <=> HourNumber(input.self) = HourNumber(input.other)
               /\ HoldingOf3 = (IF EachLeOther THEN 0 ELSE 1)

\* two equal Dates of one precision, each <= the other
C28_Witness ==
    /\ DatesCompared
    /\ input.self.precision = input.other.precision
    /\ EachLeOther
    /\ ret = Ok(TRUE)

\* two Dates of different precisions at one instant, each <= the other
C28_WitnessOfTwoPrecisions ==
    /\ DatesCompared
    /\ input.self.precision # input.other.precision
    /\ EachLeOther
    /\ ret = Ok(FALSE)

(***************************************************************************)
(* class _Singleton(type) and class Singleton of src/util.py               *)
(*                                                                         *)
(* _instances is a dict from classes to their instances. An instance is a  *)
(* record of its identity, the number of instances made before it, and of  *)
(* the argument its initializer was run with.                              *)
(***************************************************************************)
\* the instances made by one program run are not more than this
MaxInstances == 4

Instance(id, arg) == [kind |-> "instance", id |-> id, arg |-> arg]

\* super(_Singleton, cls).__call__(*args, **kwargs): a new object, on which
\* the initializer of the class is run
Singleton_new(registry, arg) == Instance(registry.made + 1, arg)

\* the registry after cls(arg)
Singleton_call_always(registry, cls, arg) ==
    [instances |->
         SetItem(registry.instances, cls, Singleton_new(registry, arg)),
     made |-> registry.made + 1]

Singleton_call(registry, cls, arg) ==
    IF cls \notin DOMAIN registry.instances
    THEN [instances |->
              SetItem(registry.instances, cls, Singleton_new(registry, arg)),
          made |-> registry.made + 1]
    ELSE registry

\* the registry after cls._reset()
Singleton_reset(registry, cls) ==
    IF cls \in DOMAIN registry.instances
    THEN [registry EXCEPT !.instances =
              [c \in DOMAIN registry.instances \ {cls} |->
                   registry.instances[c]]]
    ELSE registry

(***************************************************************************)
(* Scenario 14: the Singleton classes of a program are constructed and     *)
(* reset again and again. input is the set of the classes; obj the         *)
(* registry; calls holds the latest call.                                  *)
(***************************************************************************)
SingletonClasses ==
    {"CMIP6_CVs", "VariableTranslator", "TempDirManager"}

InitArgs == {0, 1}

SingletonCall(op, cls, arg) == [op |-> op, cls |-> cls, arg |-> arg]

InitSingleton ==
    /\ input \in SUBSET SingletonClasses \ {{}}
    /\ obj = Ok([instances |-> EmptyDict, made |-> 0])
    /\ ret = NoCall
    /\ calls = <<>>

\* cls(arg)
Construct ==
    /\ \E cls \in input, arg \in InitArgs :
           /\ cls \notin DOMAIN obj.val.instances
                  => obj.val.made < MaxInstances
           /\ obj' = Ok(Singleton_call(obj.val, cls, arg))
           /\ ret' = Ok(Singleton_call(obj.val, cls, arg).instances[cls])
           /\ calls' = <<SingletonCall("__call__", cls, arg)>>
    /\ UNCHANGED input

\* cls._reset()
Reset ==
    /\ \E cls \in input :
           /\ obj' = Ok(Singleton_reset(obj.val, cls))
           /\ calls' = <<SingletonCall("_reset", cls, 0)>>
    /\ ret' = Ok(None)
    /\ UNCHANGED input

NextSingleton == Construct \/ Reset

SpecSingleton == InitSingleton /\ [][NextSingleton]_vars

(***************************************************************************)
(* Properties of scenario 14.                                              *)
(***************************************************************************)
\* the instances of the classes other than cls are what they were
OthersKept(cls) ==
    /\ DOMAIN obj'.val.instances \ {cls} = DOMAIN obj.val.instances \ {cls}
    /\ \A c \in DOMAIN obj.val.instances \ {cls} :
           obj'.val.instances[c] = obj.val.instances[c]

\* what a construction must do
Constructed(cls, arg) ==
    /\ cls \in DOMAIN obj.val.instances =>
           /\ ret' = Ok(obj.val.instances[cls])
           /\ obj' = obj
    /\ cls \notin DOMAIN obj.val.instances =>
           /\ IsOk(ret')
           /\ ret'.val.arg = arg
           /\ \A c \in DOMAIN obj.val.instances :
                  obj.val.instances[c].id # ret'.val.id
           /\ ret'.val.id > obj.val.made
           /\ obj'.val.instances[cls] = ret'.val
    /\ OthersKept(cls)

\* what a reset must do
WasReset(cls) ==
    /\ cls \notin DOMAIN obj'.val.instances
    /\ OthersKept(cls)

\* C27: constructing a class that has an instance returns that instance
\* without running its initializer again; after _reset on a class the next
\* construction makes and initializes a new instance; _reset on one class
\* leaves the instances of every other class unchanged.
C27_OneInstancePerClass ==
    [][/\ calls'[1].op = "__call__"
           => Constructed(calls'[1].cls, calls'[1].arg)
       /\ calls'[1].op = "_reset" => WasReset(calls'[1].cls)]_vars

\* a class was constructed with another argument than its instance was
\* initialized with, after more instances were made than there are classes
\* (so some class was reset and constructed again), and another class
\* still has the first instance made
C27_Witness ==
    /\ calls # <<>>
    /\ calls[1].op = "__call__"
    /\ IsOk(ret)
    /\ ret.val.arg # calls[1].arg
    /\ ret.val.id > Cardinality(SingletonClasses)
    /\ \E c \in DOMAIN obj.val.instances : obj.val.instances[c].id = 1

(***************************************************************************)
(* TempDirManager of util_mdtf.py. A path is the pair of its directory     *)
(* and its name; the manager is its _root, its _dirs and, with it, the     *)
(* directories that exist under the roots (fs) and the number of           *)
(* directories made so far (made).                                         *)
(***************************************************************************)
MaxTempDirs == 3

_prefix == <<"M", "D", "T", "F", "_", "t", "e", "m", "p", "_">>

\* tempfile.gettempdir()
gettempdir == "/tmp"

\* the directories os.path.isdir finds
ExistingRoots == {"/tmp", "/scratch"}

\* os.path.join(root, name)
PathJoin(root, name) == [root |-> root, name |-> name]

TempDirManager_init(temp_root) ==
    LET root == IF temp_root = "" THEN gettempdir ELSE temp_root
    IN  IF root \notin ExistingRoots THEN Raise("AssertionError")
        ELSE Ok([root |-> root, dirs |-> <<>>, fs |-> {}, made |-> 0])

HexDigits ==
    <<"0", "1", "2", "3", "4", "5", "6", "7",
      "8", "9", "a", "b", "c", "d", "e", "f">>

RECURSIVE NatHex(_)
NatHex(n) ==
    IF n < 16 THEN <<HexDigits[n + 1]>>
    ELSE NatHex(n \div 16) \o <<HexDigits[(n % 16) + 1]>>

\* hex(n) on an int
hex(n) ==
    IF n < 0 THEN <<"-", "0", "x">> \o NatHex(0 - n) ELSE <<"0", "x">> \o NatHex(n)

\* hash(n) on an int
hash_int(n) == IF n = 0 - 1 THEN 0 - 2 ELSE n

\* tempfile.mkdtemp: a new directory of a name that no directory has
mkdtemp(self) == PathJoin(self.root, _prefix \o <<"t", "m", "p">> \o NatStr(self.made + 1))

\* the name make_tempdir gives the directory of an object that is neither
\* None nor a string: hash_ is a str, and a str is never less than an int,
\* so the name begins with X; the slice drops "-0x", or "0x" and a digit
HashName(hash_obj) ==
    LET hash_ == hex(hash_int(hash_obj.n))
    IN  <<"X">> \o Slice(hash_, 3, IF Len(hash_) < 3 THEN 3 ELSE Len(hash_))

new_dir(self, hash_obj) ==
    IF hash_obj = None THEN mkdtemp(self)
    ELSE IF hash_obj.kind = "str"
         THEN PathJoin(self.root, _prefix \o hash_obj.s)
    ELSE PathJoin(self.root, _prefix \o HashName(hash_obj))

InList(x, list) == \E i \in 1..Len(list) : list[i] = x

\* the manager after make_tempdir(hash_obj): the directory is made before
\* the assert
make_tempdir_self(self, hash_obj) ==
    LET made == [self EXCEPT !.fs = @ \cup {new_dir(self, hash_obj)},
                             !.made = @ + 1]
    IN  IF InList(new_dir(self, hash_obj), self.dirs) THEN made
        ELSE [made EXCEPT !.dirs = Append(@, new_dir(self, hash_obj))]

make_tempdir(self, hash_obj) ==
    IF InList(new_dir(self, hash_obj), self.dirs)
    THEN Raise("AssertionError")
    ELSE Ok(new_dir(self, hash_obj))

\* list.remove(x): the list without the first x
RECURSIVE list_remove(_, _)
list_remove(list, x) ==
    IF list = <<>> THEN list
    ELSE IF Head(list) = x THEN Tail(list)
    ELSE <<Head(list)>> \o list_remove(Tail(list), x)

rm_tempdir(self, path) ==
    IF ~InList(path, self.dirs) THEN Raise("AssertionError")
    ELSE IF path \notin self.fs THEN Raise("OSError")
    ELSE Ok(None)

rm_tempdir_self(self, path) ==
    IF ~InList(path, self.dirs) THEN self
    ELSE [self EXCEPT !.dirs = list_remove(@, path), !.fs = @ \ {path}]


\* the loop of cleanup from the i-th item on: the list iterator reads
\* item i of the list as it is now, and stops when there is none
RECURSIVE cleanup_from(_, _)
cleanup_from(self, i) ==
    IF i > Len(self.dirs) THEN self
    ELSE IF ~IsOk(rm_tempdir(self, self.dirs[i]))
         THEN rm_tempdir_self(self, self.dirs[i])
    ELSE cleanup_from(rm_tempdir_self(self, self.dirs[i]), i + 1)

RECURSIVE cleanup_raised(_, _)
cleanup_raised(self, i) ==
    IF i > Len(self.dirs) THEN Ok(None)
    ELSE IF ~IsOk(rm_tempdir(self, self.dirs[i]))
         THEN rm_tempdir(self, self.dirs[i])
    ELSE cleanup_raised(rm_tempdir_self(self, self.dirs[i]), i + 1)

cleanup_self(self) == cleanup_from(self, 1)

cleanup(self) == cleanup_raised(self, 1)

(***************************************************************************)
(* Scenario 15: a TempDirManager makes, removes and cleans up directories. *)
(* input is temp_root; obj the manager; calls holds the latest call.       *)
(***************************************************************************)
TempRoots == {"", "/scratch", "/nonexistent"}

HashObjects ==
    {None, PyStr(<<"a">>), PyStr(<<"b">>), PyInt(31), PyInt(47), PyInt(0 - 31)}

\* a path that a manager never made
StrangePath == PathJoin("/tmp", <<"o", "t", "h", "e", "r">>)

TempDirCall(op, arg) == [op |-> op, arg |-> arg]

InitTempDirs ==
    /\ input \in TempRoots
    /\ obj = TempDirManager_init(input)
    /\ ret = NoCall
    /\ calls = <<>>

\* make_tempdir(hash_obj)
MakeTempdir ==
    /\ IsOk(obj)
    /\ obj.val.made < MaxTempDirs
    /\ \E hash_obj \in HashObjects :
           /\ obj' = Ok(make_tempdir_self(obj.val, hash_obj))
           /\ ret' = make_tempdir(obj.val, hash_obj)
           /\ calls' = <<TempDirCall("make_tempdir", hash_obj)>>
    /\ UNCHANGED input

\* rm_tempdir(path)
RmTempdir ==
    /\ IsOk(obj)
    /\ \E path \in obj.val.fs \cup {StrangePath} :
           /\ obj' = Ok(rm_tempdir_self(obj.val, path))
           /\ ret' = rm_tempdir(obj.val, path)
           /\ calls' = <<TempDirCall("rm_tempdir", path)>>
    /\ UNCHANGED input

\* cleanup()
Cleanup ==
    /\ IsOk(obj)
    /\ obj' = Ok(cleanup_self(obj.val))
    /\ ret' = cleanup(obj.val)
    /\ calls' = <<TempDirCall("cleanup", None)>>
    /\ UNCHANGED input

NextTempDirs == MakeTempdir \/ RmTempdir \/ Cleanup

SpecTempDirs == InitTempDirs /\ [][NextTempDirs]_vars

(***************************************************************************)
(* Properties of scenario 15.                                              *)
(***************************************************************************)
CleanupReturned ==
    /\ calls # <<>>
    /\ calls[1].op = "cleanup"
    /\ IsOk(ret)

NoPathTwice(list) ==
    \A i, j \in 1..Len(list) : list[i] = list[j] => i = j

\* C30: after cleanup() returns the registry of temporary directories is
\* empty and every directory registered by earlier make_tempdir calls,
\* however many, has been removed; the registry never holds the same path
\* twice.
C30_CleanupEmptiesRegistry ==
    /\ IsOk(obj) => NoPathTwice(obj.val.dirs)
    /\ CleanupReturned =>
           /\ obj.val.dirs = <<>>
           /\ \A path \in obj.val.fs : InList(path, obj.val.dirs)

\* what holds instead: the registry never holds a path twice, every
\* registered directory exists, and cleanup removes every other directory
\* of the registry, the first one first
C30_CleanupRemovesEveryOther ==
    [][/\ IsOk(obj') => NoPathTwice(obj'.val.dirs)
       /\ IsOk(obj') =>
              \A i \in 1..Len(obj'.val.dirs) : obj'.val.dirs[i] \in obj'.val.fs
       /\ calls'[1].op = "cleanup" =>
              /\ IsOk(ret')
              /\ Len(obj'.val.dirs) = Len(obj.val.dirs) \div 2
              /\ \A i \in 1..Len(obj'.val.dirs) :
                     obj'.val.dirs[i] = obj.val.dirs[2 * i]
              /\ obj'.val.fs =
                     obj.val.fs \ {obj.val.dirs[i] : i \in
                         {k \in 1..Len(obj.val.dirs) : k % 2 = 1}}]_vars

=============================================================================
